---- MODULE Spec2Model ----
(***************************************************************************)
(* Settlement reconciliation engine of xgacf: the order table, the user    *)
(* handlers that create and cancel orders, the polling monitor, the OkPay  *)
(* notification handler and the order cleaner, each split at its await     *)
(* points so that every interleaving asyncio allows is a behaviour.        *)
(***************************************************************************)
EXTENDS Integers, Sequences, FiniteSets, TLC

\* ------------------------------------------------------------------ bounds
MaxTime == 2          \* event-loop seconds an order id can be stamped with
MaxTicks == 1         \* wall-clock ticks (each longer than the order timeout)
NumHandlers == 2      \* concurrent aiohttp request handlers
MaxNotifs == 2        \* notifications that reach the success path in one behaviour
MaxDeposits == 1      \* receiving addresses that get funded in one behaviour
MaxCalls == 2         \* the fulfilment counters saturate here
MaxCreates == 2       \* orders placed in one behaviour
MaxRestarts == 1      \* times the process is stopped and started again
MaxClients == 3       \* LiteClient objects made in one behaviour

\* ------------------------------------------------------- program constants
ORDER_TIMEOUT_MINUTES == 30
\* One tick of the wall clock takes an order past the timeout.
TickMinutes == ORDER_TIMEOUT_MINUTES + 1
IndexModulus == 1000000
TESTNET == FALSE
\* Python's None.
None == "<None>"

Users == {1}
Targets == {7}
Months == {3, 12}
Rails == {"ton", "trc20", "okpay"}
Monitors == {1, 2}
MainMonitor == 1
Handlers == 1..NumHandlers

\* The LiteClient objects a behaviour can make, and the coroutines that call
\* ensure_connected: generate_usdt_jetton_wallet for two orders being placed,
\* the monitor's cycle, and execute_purchase run by a notification handler.
Clients == 1..MaxClients
Callers == {"order_a", "order_b", "monitor", "purchase"}
\* The callers that come through generate_usdt_jetton_wallet and its lock.
Locking == {"order_a", "order_b"}
CallerIdle == [pc |-> "idle", mine |-> 0]

Abs(x) == IF x < 0 THEN -x ELSE x

\* order_id = f"ORD{int(loop.time())}{user_id}": the decimal digits of the
\* clock followed by those of the user id (both one digit here).
OrderId(t, u) == t * 10 + u
OrderIds == {OrderId(t, u) : t \in 1..MaxTime, u \in Users}

\* Python's hash of the string f"{user_id}_{username}_{months}": some fixed
\* function of the three values for the life of the process.
PyHash(u, tg, m) == ((u * 31 + tg) * 31 + m) - 7000

WalletIndex(u, tg, m) == Abs(PyHash(u, tg, m)) % IndexModulus

\* Receiving addresses: one per reduced index and rail; 0 is "no address".
\* index % (2 ** 32), taken 16 bits at a time to stay within TLC's 32-bit
\* integers.
SafeIndexNarrow(i) == i % 65536
SafeIndex(i) == (i % 65536) + 65536 * ((i \div 65536) % 65536)
JettonAddr(i) == SafeIndex(i) + 1
Trc20Addr(i) == SafeIndex(i) + 1

\* What get_jetton_data of a jetton master puts on the stack: the total
\* supply, the mintable flag, the admin address, the content and the wallet
\* code, in this order.
GetJettonData ==
    <<"total_supply", "mintable", "admin_address", "jetton_content", "jetton_wallet_code">>

\* The address of a contract is the hash of its code and its initial data:
\* the state made of the master's wallet code for an owner has the address
\* the master itself answers (JettonAddr); with any other code cell it is
\* some other address.
StateInitAddress(code, index) ==
    IF code = GetJettonData[5] THEN JettonAddr(index) ELSE JettonAddr(index) + IndexModulus

\* ------------------------------------------- the balance comparison, exactly
\* Python floats are IEEE 754 binary64. A float is kept as its 53-bit
\* significand (a sequence of bits, most significant first) and the number
\* e of those bits that follow the binary point: its value is m / 2^e.
SignificandBits == 53
Million == 1000000

RECURSIVE BitsOf(_)
BitsOf(n) == IF n = 0 THEN <<>> ELSE Append(BitsOf(n \div 2), n % 2)

RECURSIVE ValOf(_)
ValOf(b) == IF b = <<>> THEN 0 ELSE 2 * ValOf(SubSeq(b, 1, Len(b) - 1)) + b[Len(b)]

RECURSIVE Zeros(_)
Zeros(n) == IF n = 0 THEN <<>> ELSE <<0>> \o Zeros(n - 1)

RECURSIVE StripZeros(_)
StripZeros(b) == IF b # <<>> /\ Head(b) = 0 THEN StripZeros(Tail(b)) ELSE b

\* Long division of the bits b by a small divisor d, with r carried in from
\* the bits before: the quotient's bits, and the remainder left at the end.
RECURSIVE DivFrom(_, _, _)
DivFrom(b, r, d) ==
    IF b = <<>> THEN <<>>
    ELSE <<(2 * r + Head(b)) \div d>> \o DivFrom(Tail(b), (2 * r + Head(b)) % d, d)

RECURSIVE RemFrom(_, _, _)
RemFrom(b, r, d) ==
    IF b = <<>> THEN r
    ELSE LET t == 2 * r + Head(b)
         IN IF t < d THEN RemFrom(Tail(b), t, d) ELSE RemFrom(Tail(b), t % d, d)

\* Long multiplication of the bits b by a small factor f, from the last bit
\* on, with c carried in.
RECURSIVE MulFrom(_, _, _)
MulFrom(b, c, f) ==
    IF b = <<>> THEN BitsOf(c)
    ELSE LET t == b[Len(b)] * f + c
         IN IF t = 0 THEN Append(MulFrom(SubSeq(b, 1, Len(b) - 1), 0, f), 0)
            ELSE Append(MulFrom(SubSeq(b, 1, Len(b) - 1), t \div 2, f), t % 2)

\* b + 1.
RECURSIVE IncBits(_)
IncBits(b) ==
    IF b = <<>> THEN <<1>>
    ELSE IF b[Len(b)] = 0 THEN Append(SubSeq(b, 1, Len(b) - 1), 1)
    ELSE Append(IncBits(SubSeq(b, 1, Len(b) - 1)), 0)

\* Round to nearest, ties to even: keep the first SignificandBits bits of b;
\* round up when what is cut off is more than half a unit, or exactly half
\* with the kept part odd. [m, cut]: the significand and how many bits went.
RoundBits(b) ==
    LET kept == SubSeq(b, 1, SignificandBits)
        cutOff == SubSeq(b, SignificandBits + 1, Len(b))
        half == cutOff # <<>> /\ cutOff[1] = 1
        more == \E i \in 2..Len(cutOff) : cutOff[i] = 1
        up == half /\ (more \/ kept[SignificandBits] = 1)
        sum == IF up THEN IncBits(kept) ELSE kept
    IN IF Len(sum) > SignificandBits
       THEN [m |-> SubSeq(sum, 1, SignificandBits), cut |-> Len(b) - SignificandBits + 1]
       ELSE [m |-> sum, cut |-> Len(b) - SignificandBits]

\* float("<micro / 10^6>"): the binary64 nearest to the decimal the callback
\* data carries, for an amount of micro millionths (micro > 0): the quotient
\* micro * 2^e1 / 10^6 to SignificandBits bits, one bit more, and a last bit
\* that says whether anything is left over. The value is m / 2^e.
ParseAmount(micro) ==
    LET a == BitsOf(micro)
        Quotient(shift) == StripZeros(DivFrom(a \o Zeros(shift), 0, Million))
        e0 == SignificandBits + Len(BitsOf(Million)) - 1 - Len(a)
        e1 == IF Len(Quotient(e0)) = SignificandBits THEN e0 ELSE e0 + 1
        rem == RemFrom(a \o Zeros(e1), 0, Million)
        guard == (2 * rem) \div Million
        sticky == IF (2 * rem) % Million > 0 THEN 1 ELSE 0
        rounded == RoundBits(Quotient(e1) \o <<guard, sticky>>)
    IN [m |-> rounded.m, e |-> e1 + 2 - rounded.cut]

\* x * 1_000_000: the exact product, rounded to nearest even.
FloatTimesMillion(x) ==
    LET rounded == RoundBits(MulFrom(x.m, 0, Million))
    IN [m |-> rounded.m, e |-> x.e - rounded.cut]

\* int(x): truncation towards zero (for 0 <= x < 2^31).
PyInt(x) == IF x.e >= Len(x.m) THEN 0 ELSE ValOf(SubSeq(x.m, 1, Len(x.m) - x.e))

\* required_balance = int(expected_usdt * 1_000_000)
RequiredBalance(micro) == PyInt(FloatTimesMillion(ParseAmount(micro)))

\* current_balance >= required_balance
BalanceSuffices(balance, micro) == balance >= RequiredBalance(micro)

\* ------------------------------------------------------------------- state
VARIABLES
    orders,     \* the orders table: order id -> row (status "absent": no row)
    ticks,      \* wall clock
    funded,     \* <<rail, address>> pairs whose balance covers the amount
    paylinks,   \* order ids OkPay holds a pay link for
    notifs,     \* notifications that reached the success path so far
    creates,    \* orders placed so far
    restarts,   \* restarts so far
    calls,      \* order id -> FulfillmentProvider invocations
    succ,       \* order id -> successful FulfillmentProvider invocations
    ui,         \* the process_currency handler in flight
    mon,        \* monitor task -> its position, batch and local variables
    hooks,      \* request handler -> its position and local variables
    sw,         \* the cleaner's position and batch
    obs,        \* the last call examined on its own: its input and what came back
    hd,         \* HDWalletManager: its client and its cached contract code
    conn,       \* the LiteClient objects, the manager's lock, the callers of ensure_connected
    loop        \* Monitor.check_orders_loop: is_running, where the task is, its sleep time

vars == <<orders, ticks, funded, paylinks, notifs, creates, restarts, calls, succ, ui, mon, hooks,
          sw, obs, hd, conn, loop>>

\* Everything the running program holds; obs is the only variable outside it.
program == <<orders, ticks, funded, paylinks, notifs, creates, restarts, calls, succ, ui, mon,
             hooks, sw, hd, conn, loop>>

Now == ticks * TickMinutes

Absent(o) ==
    [id |-> 0, order_id |-> o, status |-> "absent", user_id |-> 0, target |-> 0, months |-> 0,
     wallet_index |-> 0, payment_method |-> "none", ton_addr |-> 0, trc20_addr |-> 0,
     created_at |-> 0]

Exists(o) == orders[o].status # "absent"

Bump(n) == IF n < MaxCalls THEN n + 1 ELSE n

\* ---------------------------------------------------------------- database
\* INSERT OR REPLACE: the row with this order_id, if any, is replaced.
DbCreateOrder(tbl, data) == [tbl EXCEPT ![data.order_id] = data]

DbGetOrder(tbl, o) == tbl[o]

\* UPDATE ... WHERE order_id = ?: no row, no effect.
DbUpdateOrderStatus(tbl, o, st) ==
    IF tbl[o].status = "absent" THEN tbl ELSE [tbl EXCEPT ![o].status = st]

DbUpdateOrderWallet(tbl, o, ton, trc) ==
    IF tbl[o].status = "absent" THEN tbl
    ELSE [tbl EXCEPT ![o].ton_addr = ton, ![o].trc20_addr = trc]

DbDeleteOrder(tbl, o) == [tbl EXCEPT ![o] = Absent(o)]

\* All orderings of the rows in S by created_at descending (rows with equal
\* timestamps come in either order).
RECURSIVE DescSeqs(_)
DescSeqs(S) ==
    IF S = {} THEN {<<>>}
    ELSE UNION {{<<r>> \o rest : rest \in DescSeqs(S \ {r})} :
                r \in {x \in S : \A y \in S : y.created_at <= x.created_at}}

DbGetAllCheckingOrders(tbl) ==
    DescSeqs({tbl[o] : o \in {x \in OrderIds : tbl[x].status \in {"checking", "paid"}}})

\* sqlite3 binds a tuple or list of parameters; anything else is refused.
SqlBind(params) == IF params.kind = "tuple" THEN "ok" ELSE "ProgrammingError"

\* The columns of a row the cleaner reads.
CleanerRow(row) == [order_id |-> row.order_id, user_id |-> row.user_id]

DbGetExpiredPendingOrders(tbl, minutes) ==
    IF SqlBind([kind |-> "tuple", items |-> <<"pending", minutes>>]) = "ok"
    THEN [raised |-> FALSE,
          rows |-> {tbl[o] : o \in {x \in OrderIds :
                       tbl[x].status = "pending" /\ tbl[x].created_at < Now - minutes}}]
    ELSE [raised |-> TRUE, rows |-> {}]

\* The parameters are written (minutes), which is the integer itself.
DbGetExpiredCheckingOrders(tbl, minutes) ==
    IF SqlBind([kind |-> "int", items |-> <<minutes>>]) = "ok"
    THEN [raised |-> FALSE,
          rows |-> {tbl[o] : o \in {x \in OrderIds :
                       tbl[x].status \in {"checking", "paid"}
                       /\ tbl[x].created_at < Now - minutes}}]
    ELSE [raised |-> TRUE, rows |-> {}]

\* All orderings of a set of rows (a SELECT without ORDER BY).
RECURSIVE AnySeqs(_)
AnySeqs(S) ==
    IF S = {} THEN {<<>>}
    ELSE UNION {{<<r>> \o rest : rest \in AnySeqs(S \ {r})} : r \in S}

\* ------------------------------------------------------------------- Init
MonIdle == [pc |-> "sleep", batch |-> <<>>, order |-> Absent(0), res |-> "none"]
HookIdle == [pc |-> "idle", id |-> 0, row |-> 0, res |-> "none"]
UiIdle == [pc |-> "idle", id |-> 0, rail |-> "none", index |-> 0]
SwIdle == [pc |-> "idle", batch |-> <<>>]
NoObs == [op |-> "none"]
\* self.client = None, self._jetton_wallet_code_cache = None
HdInit == [connected |-> FALSE, code_cache |-> None]
\* No LiteClient made yet (self.client = None), the lock free, no caller inside.
\* Monitor.__init__: is_running = False; start() has not run yet.
LoopInit == [is_running |-> FALSE, pc |-> "unstarted", sleep_time |-> 0]
ConnInit ==
    [client |-> 0, state |-> [x \in Clients |-> "unborn"], lock |-> "free",
     task |-> [c \in Callers |-> CallerIdle]]

Init ==
    /\ orders = [o \in OrderIds |-> Absent(o)]
    /\ ticks = 0
    /\ funded = {}
    /\ paylinks = {}
    /\ notifs = 0
    /\ creates = 0
    /\ restarts = 0
    /\ calls = [o \in OrderIds |-> 0]
    /\ succ = [o \in OrderIds |-> 0]
    /\ ui = UiIdle
    /\ mon = [m \in Monitors |-> MonIdle]
    /\ hooks = [h \in Handlers |-> HookIdle]
    /\ sw = SwIdle
    /\ obs = NoObs
    /\ hd = HdInit
    /\ conn = ConnInit
    /\ loop = LoopInit

\* ------------------------------------------------- handlers/user.py
\* process_currency up to its first database write: the order is stored as
\* pending, without an address yet. The table numbers its rows itself (id
\* INTEGER PRIMARY KEY AUTOINCREMENT), so a replaced row gets a new id.
U_Create(t, u, tg, m, rail) ==
    LET o == OrderId(t, u)
        idx == WalletIndex(u, tg, m)
        data == [id |-> creates + 1, order_id |-> o, status |-> "pending", user_id |-> u,
                 target |-> tg,
                 months |-> m, wallet_index |-> idx, payment_method |-> rail,
                 ton_addr |-> 0, trc20_addr |-> 0, created_at |-> Now]
    IN /\ ui.pc = "idle"
       /\ creates < MaxCreates
       /\ creates' = creates + 1
       /\ orders' = DbCreateOrder(orders, data)
       /\ calls' = [calls EXCEPT ![o] = 0]
       /\ succ' = [succ EXCEPT ![o] = 0]
       /\ ui' = [pc |-> "wallet", id |-> o, rail |-> rail, index |-> idx]
       /\ UNCHANGED <<ticks, funded, paylinks, notifs, restarts, mon, hooks, sw, obs, hd, conn, loop>>

\* process_currency from the derivation of the address to update_order_wallet.
\* A failed rail-A derivation returns before the update; OkPay's create_order
\* returns None on failure and the update still runs.  The rail-A address is
\* the one the master answers or the one computed from the cached code cell
\* (generate_usdt_jetton_wallet); which of the two depends on the network
\* and on the manager's cache, which this step leaves to a choice and which
\* U_WalletDerived follows step by step.
U_Wallet ==
    /\ ui.pc = "wallet"
    /\ ui' = UiIdle
    /\ \/ /\ ui.rail = "ton"
          /\ \/ /\ \E code \in {GetJettonData[5], GetJettonData[3 + 1]} :
                      orders' = DbUpdateOrderWallet(orders, ui.id,
                                                    StateInitAddress(code, ui.index), 0)
                /\ UNCHANGED paylinks
             \/ UNCHANGED <<orders, paylinks>>
       \/ /\ ui.rail = "trc20"
          /\ orders' = DbUpdateOrderWallet(orders, ui.id, 0, Trc20Addr(ui.index))
          /\ UNCHANGED paylinks
       \/ /\ ui.rail = "okpay"
          /\ orders' = DbUpdateOrderWallet(orders, ui.id, 0, 0)
          /\ \/ paylinks' = paylinks \cup {ui.id}
             \/ UNCHANGED paylinks
    /\ UNCHANGED <<ticks, funded, notifs, creates, restarts, calls, succ, mon, hooks, sw, obs, hd, conn, loop>>

\* cancel_order: the row is deleted whatever its status.
U_Cancel(o) ==
    /\ Exists(o)
    /\ orders' = DbDeleteOrder(orders, o)
    /\ UNCHANGED <<ticks, funded, paylinks, notifs, creates, restarts, calls, succ, ui, mon, hooks, sw, obs, hd, conn,
                   loop>>

UserNext ==
    \/ \E t \in 1..MaxTime, u \in Users, tg \in Targets, m \in Months, rail \in Rails :
          U_Create(t, u, tg, m, rail)
    \/ U_Wallet
    \/ \E o \in OrderIds : U_Cancel(o)

\* ------------------------------------------------------------ environment
\* Wall-clock time passes.
Tick ==
    /\ ticks < MaxTicks
    /\ ticks' = ticks + 1
    /\ UNCHANGED <<orders, funded, paylinks, notifs, creates, restarts, calls, succ, ui, mon, hooks, sw, obs, hd, conn,
                   loop>>

\* A payer funds a receiving address that some order shows; the balance stays.
Deposit(o) ==
    /\ Exists(o)
    /\ Cardinality(funded) < MaxDeposits
    /\ \/ /\ orders[o].ton_addr # 0
          /\ funded' = funded \cup {<<"ton", orders[o].ton_addr>>}
       \/ /\ orders[o].trc20_addr # 0
          /\ funded' = funded \cup {<<"trc20", orders[o].trc20_addr>>}
    /\ funded' # funded
    /\ UNCHANGED <<orders, ticks, paylinks, notifs, creates, restarts, calls, succ, ui, mon, hooks, sw, obs, hd, conn,
                   loop>>

\* The process stops and is started again: every task is gone, the table stays.
Restart ==
    /\ \/ ui # UiIdle
       \/ mon[MainMonitor] # MonIdle
       \/ \E h \in Handlers : hooks[h] # HookIdle
       \/ sw # SwIdle
    /\ ui' = UiIdle
    /\ mon' = [m \in Monitors |-> MonIdle]
    /\ hooks' = [h \in Handlers |-> HookIdle]
    /\ sw' = SwIdle
    /\ restarts < MaxRestarts
    /\ restarts' = restarts + 1
    /\ UNCHANGED <<orders, ticks, funded, paylinks, notifs, creates, calls, succ, obs, hd, conn, loop>>

EnvNext ==
    \/ Tick
    \/ \E o \in OrderIds : Deposit(o)
    \/ Restart

\* ------------------------------------------------- services/fragment.py
\* What execute_purchase hands back: a dict on "ok" and on "fail" (success
\* True or False), or an exception raised before its retry loop.
Outcomes == {"ok", "fail", "raise"}
PurchaseResult(outcome) == [success |-> outcome = "ok"]

\* Python's truth value of a dict: true unless it is empty.
PyTruthy(d) == DOMAIN d # {}

\* The call itself, as the counters see it.
Invoke(o, outcome) ==
    /\ calls' = [calls EXCEPT ![o] = Bump(@)]
    /\ succ' = [succ EXCEPT ![o] = IF outcome = "ok" THEN Bump(@) ELSE @]

\* ------------------------------------------------- services/monitor.py
\* The address check_ton_payment / check_trc20_payment queries for a row.
QueriedAddr(row) ==
    IF row.payment_method = "ton" THEN row.ton_addr
    ELSE IF row.payment_method = "trc20" THEN row.trc20_addr
    ELSE 0

\* A row the for loop of check_orders passes over without awaiting anything:
\* a completed one, an OkPay one, one without an address.
Skipped(row) ==
    \/ row.status = "completed"
    \/ row.payment_method \notin {"ton", "trc20"}
    \/ QueriedAddr(row) = 0

\* The for loop from the rows still to visit up to its next await: the
\* balance query of the first row that is not passed over, or the end of the
\* cycle and the sleep.
RECURSIVE LoopFrom(_)
LoopFrom(rows) ==
    IF rows = <<>> THEN [pc |-> "sleep", batch |-> <<>>, order |-> Absent(0), res |-> "none"]
    ELSE IF Skipped(Head(rows)) THEN LoopFrom(Tail(rows))
    ELSE [pc |-> "balance", batch |-> Tail(rows), order |-> Head(rows), res |-> "none"]

\* check_orders: connect (a failure ends the cycle at once), then the batch
\* of checking and paid orders, then the loop up to its first await.
M_Start(m) ==
    /\ mon[m].pc = "sleep"
    /\ \E connected \in BOOLEAN, b \in DbGetAllCheckingOrders(orders) :
          mon' = [mon EXCEPT ![m] = IF connected THEN LoopFrom(b) ELSE MonIdle]
    /\ mon' # mon
    /\ UNCHANGED <<orders, ticks, funded, paylinks, notifs, creates, restarts, calls, succ, ui, hooks, sw, obs, hd, conn,
                   loop>>

\* The balance query answers: an error or no data leaves the order alone, a
\* balance below the amount too; a sufficient one enters _process_success.
M_BalanceHalts(m) ==
    /\ mon[m].pc = "balance"
    /\ mon' = [mon EXCEPT ![m] = MonIdle]
    /\ UNCHANGED <<orders, ticks, funded, paylinks, notifs, creates, restarts, calls, succ, ui, hooks, sw, obs, hd, conn,
                   loop>>
M_BalanceGivesUp(m) ==
    /\ mon[m].pc = "balance"
    /\ orders' = DbUpdateOrderStatus(orders, mon[m].order.order_id, "expired")
    /\ mon' = [mon EXCEPT ![m] = LoopFrom(@.batch)]
    /\ UNCHANGED <<ticks, funded, paylinks, notifs, creates, restarts, calls, succ, ui, hooks, sw, obs, hd, conn,
                   loop>>
M_Balance(m) ==
    /\ mon[m].pc = "balance"
    /\ \E answered \in BOOLEAN :
          LET row == mon[m].order
              enough == answered /\ <<row.payment_method, QueriedAddr(row)>> \in funded
          IN mon' = [mon EXCEPT ![m] =
                        IF enough THEN [@ EXCEPT !.pc = "reread"] ELSE LoopFrom(@.batch)]
    /\ UNCHANGED <<orders, ticks, funded, paylinks, notifs, creates, restarts, calls, succ, ui, hooks, sw, obs, hd, conn,
                   loop>>

\* _process_success, db.get_order, for a task and the table it reads: a
\* missing row makes .get raise (caught), a paid or completed row returns, and
\* the task is back in the loop; any other row lets it go on to its write.
RereadUnguarded(tbl, task) == [task EXCEPT !.pc = "markpaid"]
RereadTakesMissing(tbl, task) ==
    IF DbGetOrder(tbl, task.order.order_id).status \in {"paid", "completed"}
    THEN LoopFrom(task.batch) ELSE [task EXCEPT !.pc = "markpaid"]
Reread(tbl, task) ==
    LET current == DbGetOrder(tbl, task.order.order_id)
        stop == current.status \in {"absent", "paid", "completed"}
    IN IF stop THEN LoopFrom(task.batch) ELSE [task EXCEPT !.pc = "markpaid"]

M_Reread(m) ==
    /\ mon[m].pc = "reread"
    /\ mon' = [mon EXCEPT ![m] = Reread(orders, @)]
    /\ UNCHANGED <<orders, ticks, funded, paylinks, notifs, creates, restarts, calls, succ, ui, hooks, sw, obs, hd, conn,
                   loop>>

\* _process_success, db.update_order_status(order_id, "paid").
M_MarkPaid(m) ==
    /\ mon[m].pc = "markpaid"
    /\ orders' = DbUpdateOrderStatus(orders, mon[m].order.order_id, "paid")
    /\ mon' = [mon EXCEPT ![m].pc = "exec"]
    /\ UNCHANGED <<ticks, funded, paylinks, notifs, creates, restarts, calls, succ, ui, hooks, sw, obs, hd, conn,
                   loop>>

\* _process_success, the fulfilment: simulated in TESTNET mode, otherwise
\* execute_purchase; an exception is caught by the outer handler.
M_Execute(m) ==
    /\ mon[m].pc = "exec"
    /\ IF TESTNET
       THEN /\ mon' = [mon EXCEPT ![m].pc = "finish", ![m].res = "simulated"]
            /\ UNCHANGED <<calls, succ>>
       ELSE \E outcome \in Outcomes :
               /\ Invoke(mon[m].order.order_id, outcome)
               /\ mon' = [mon EXCEPT ![m] =
                             IF outcome = "raise" THEN LoopFrom(@.batch)
                             ELSE [@ EXCEPT !.pc = "finish", !.res = outcome]]
    /\ UNCHANGED <<orders, ticks, funded, paylinks, notifs, creates, restarts, ui, hooks, sw, obs, hd, conn, loop>>

\* The value _process_success tests with "if success:".
MonitorSuccess(res) == IF res = "simulated" THEN TRUE ELSE PyTruthy(PurchaseResult(res))

\* _process_success, the last write (the notification that follows a
\* completed write is best effort and changes nothing), then the loop again.
M_Finish(m) ==
    /\ mon[m].pc = "finish"
    /\ orders' = DbUpdateOrderStatus(orders, mon[m].order.order_id,
                     IF MonitorSuccess(mon[m].res) THEN "completed" ELSE "checking")
    /\ mon' = [mon EXCEPT ![m] = LoopFrom(@.batch)]
    /\ UNCHANGED <<ticks, funded, paylinks, notifs, creates, restarts, calls, succ, ui, hooks, sw, obs, hd, conn,
                   loop>>

ProcessSuccess(m) ==
    \/ M_Reread(m)
    \/ M_MarkPaid(m)
    \/ M_Execute(m)
    \/ M_Finish(m)

MonitorNext ==
    \/ M_Start(MainMonitor)
    \/ M_Balance(MainMonitor)
    \/ ProcessSuccess(MainMonitor)

\* ------------------------------------------------- services/okpay.py
\* handle_notification through db.get_order, for a callback that passed the
\* checks of the web layer. OkPay notifies about the ids it holds a pay link
\* for. A callback without unique_id, of another type or with another status
\* flag returns at once; an unknown or completed order is acknowledged and
\* left; an order read as paid goes straight to the fulfilment. The request
\* is served by the first free handler.
W_Arrive(h, uid, payType, flag) ==
    /\ hooks[h].pc = "idle"
    /\ \A k \in Handlers : k < h => hooks[k].pc # "idle"
    /\ LET order == DbGetOrder(orders, uid)
           returns == \/ uid = 0 \/ payType # "deposit" \/ flag # 1
                      \/ order.status \in {"absent", "completed"}
       IN IF returns
          THEN UNCHANGED <<hooks, notifs>>
          ELSE /\ notifs < MaxNotifs
               /\ notifs' = notifs + 1
               /\ hooks' = [hooks EXCEPT ![h] =
                               [HookIdle EXCEPT !.id = uid, !.row = order.id,
                                                !.pc = IF order.status # "paid"
                                                       THEN "markpaid" ELSE "exec"]]
    /\ UNCHANGED <<orders, ticks, funded, paylinks, creates, restarts, calls, succ, ui, mon, sw, obs, hd, conn,
                   loop>>

\* db.update_order_status(unique_id, "paid") and the best-effort message.
W_MarkPaid(h) ==
    /\ hooks[h].pc = "markpaid"
    /\ orders' = DbUpdateOrderStatus(orders, hooks[h].id, "paid")
    /\ hooks' = [hooks EXCEPT ![h].pc = "exec"]
    /\ UNCHANGED <<ticks, funded, paylinks, notifs, creates, restarts, calls, succ, ui, mon, sw, obs, hd, conn,
                   loop>>

\* execute_purchase (the status read at the lookup is never completed here,
\* so the guard before it always passes); an exception goes to the handler's
\* except clause.
W_Execute(h) ==
    /\ hooks[h].pc = "exec"
    /\ \E outcome \in Outcomes :
          /\ Invoke(hooks[h].id, outcome)
          /\ hooks' = [hooks EXCEPT ![h] =
                          IF outcome = "raise" THEN [@ EXCEPT !.pc = "except"]
                          ELSE [@ EXCEPT !.pc = "finish", !.res = outcome]]
    /\ UNCHANGED <<orders, ticks, funded, paylinks, notifs, creates, restarts, ui, mon, sw, obs, hd, conn, loop>>

\* The write that follows the dict's "success" entry: completed or checking.
W_Finish(h) ==
    /\ hooks[h].pc = "finish"
    /\ orders' = DbUpdateOrderStatus(orders, hooks[h].id,
                     IF PurchaseResult(hooks[h].res).success THEN "completed" ELSE "checking")
    /\ hooks' = [hooks EXCEPT ![h] = HookIdle]
    /\ UNCHANGED <<ticks, funded, paylinks, notifs, creates, restarts, calls, succ, ui, mon, sw, obs, hd, conn,
                   loop>>

\* The except clause: the order is written back to checking.
W_Except(h) ==
    /\ hooks[h].pc = "except"
    /\ orders' = DbUpdateOrderStatus(orders, hooks[h].id, "checking")
    /\ hooks' = [hooks EXCEPT ![h] = HookIdle]
    /\ UNCHANGED <<ticks, funded, paylinks, notifs, creates, restarts, calls, succ, ui, mon, sw, obs, hd, conn,
                   loop>>

\* A handler that has started goes on to its next await.
WebhookProgress ==
    \E h \in Handlers :
        \/ W_MarkPaid(h)
        \/ W_Execute(h)
        \/ W_Finish(h)
        \/ W_Except(h)

WebhookNext ==
    \/ \E h \in Handlers, uid \in paylinks \cup {0}, payType \in {"deposit", "withdraw"},
          flag \in {0, 1} :
          W_Arrive(h, uid, payType, flag)
    \/ WebhookProgress

\* ------------------------------------------------- services/cleaner.py
\* The cleaner from the end of clean_pending_orders to its sleep:
\* clean_checking_orders runs its query, which raises; the function logs the
\* error and returns without touching an order.
AfterPending ==
    IF DbGetExpiredCheckingOrders(orders, ORDER_TIMEOUT_MINUTES).raised
    THEN SwIdle
    ELSE [pc |-> "checking", batch |-> <<>>]

\* The for loop of clean_pending_orders from the rows still to visit up to
\* its next await: the notice for the first row, or the end of the function.
SweepFrom(rows) ==
    IF rows = <<>> THEN AfterPending ELSE [pc |-> "notify", batch |-> rows]

\* One sweep starts: the expired pending orders are fetched.
S_Start ==
    /\ sw.pc = "idle"
    /\ LET got == DbGetExpiredPendingOrders(orders, ORDER_TIMEOUT_MINUTES)
       IN IF got.raised THEN sw' = AfterPending
          ELSE \E b \in AnySeqs({CleanerRow(r) : r \in got.rows}) : sw' = SweepFrom(b)
    /\ sw' # sw
    /\ UNCHANGED <<orders, ticks, funded, paylinks, notifs, creates, restarts, calls, succ, ui, mon, hooks, obs, hd, conn,
                   loop>>

\* The cancellation notice for the next order of the batch: when sending
\* fails the order is left and the loop goes on.
S_NotifyHalts ==
    /\ sw.pc = "notify"
    /\ \/ sw' = [sw EXCEPT !.pc = "delete"]
       \/ sw' = SwIdle
    /\ UNCHANGED <<orders, ticks, funded, paylinks, notifs, creates, restarts, calls, succ, ui, mon, hooks, obs, hd, conn,
                   loop>>
S_Notify ==
    /\ sw.pc = "notify"
    /\ \/ sw' = [sw EXCEPT !.pc = "delete"]
       \/ sw' = SweepFrom(Tail(sw.batch))
    /\ UNCHANGED <<orders, ticks, funded, paylinks, notifs, creates, restarts, calls, succ, ui, mon, hooks, obs, hd, conn,
                   loop>>

\* db.delete_order for the order just notified.
S_Delete ==
    /\ sw.pc = "delete"
    /\ orders' = DbDeleteOrder(orders, Head(sw.batch).order_id)
    /\ sw' = SweepFrom(Tail(sw.batch))
    /\ UNCHANGED <<ticks, funded, paylinks, notifs, creates, restarts, calls, succ, ui, mon, hooks, obs, hd, conn,
                   loop>>

SweeperNext ==
    \/ S_Start
    \/ S_Notify
    \/ S_Delete

\* ---------------------------------------------------------- specification
Next ==
    \/ UserNext
    \/ EnvNext
    \/ MonitorNext
    \/ WebhookNext
    \/ SweeperNext

Spec == Init /\ [][Next]_vars

\* A cycle whose connection check succeeds and which finds an order to query.
M_Connected == M_Start(MainMonitor) /\ mon'[MainMonitor].pc = "balance"

\* A balance query that is answered with a sufficient balance.
M_Answered == M_Balance(MainMonitor) /\ mon'[MainMonitor].pc = "reread"

\* The loops of the monitor and of the cleaner run for as long as the process
\* does, and a request handler or a user handler that has started runs on.
\* The network does not fail for ever: a cycle that is tried again and again
\* connects, and a query on a funded address is answered.
FairSpec ==
    /\ Init
    /\ [][Next]_vars
    /\ WF_vars(MonitorNext)
    /\ SF_vars(M_Connected)
    /\ SF_vars(M_Answered)
    /\ WF_vars(SweeperNext)
    /\ WF_vars(WebhookProgress)
    /\ WF_vars(U_Wallet)

\* ------------------------------------------------- two concurrent checks
\* The monitor's check of one order started twice on the same row: the row
\* is in checking with its address funded, and both tasks are at the balance
\* query.
InitTwice ==
    \E t \in 1..MaxTime, u \in Users, tg \in Targets, m \in Months, rail \in {"ton", "trc20"} :
        LET o == OrderId(t, u)
            idx == WalletIndex(u, tg, m)
            row == [id |-> 1, order_id |-> o, status |-> "checking", user_id |-> u,
                    target |-> tg,
                    months |-> m, wallet_index |-> idx, payment_method |-> rail,
                    ton_addr |-> IF rail = "ton" THEN JettonAddr(idx) ELSE 0,
                    trc20_addr |-> IF rail = "trc20" THEN Trc20Addr(idx) ELSE 0,
                    created_at |-> 0]
        IN /\ orders = [x \in OrderIds |-> IF x = o THEN row ELSE Absent(x)]
           /\ funded = {<<rail, QueriedAddr(row)>>}
           /\ mon = [k \in Monitors |-> LoopFrom(<<row>>)]
           /\ ticks = 0
           /\ paylinks = {}
           /\ notifs = 0
           /\ creates = 1
           /\ restarts = 0
           /\ calls = [x \in OrderIds |-> 0]
           /\ succ = [x \in OrderIds |-> 0]
           /\ ui = UiIdle
           /\ hooks = [h \in Handlers |-> HookIdle]
           /\ sw = SwIdle
           /\ obs = NoObs
           /\ hd = HdInit
           /\ conn = ConnInit
           /\ loop = LoopInit

NextTwice == \E m \in Monitors : M_Balance(m) \/ ProcessSuccess(m)

SpecTwice == InitTwice /\ [][NextTwice]_vars

\* The same two checks with the re-read of _process_success on record: the
\* task, the order and the status it read.
M_RereadLogged(m) ==
    /\ mon[m].pc = "reread"
    /\ mon' = [mon EXCEPT ![m] = Reread(orders, @)]
    /\ obs' = [op |-> "reread", task |-> m, order_id |-> mon[m].order.order_id,
               status |-> DbGetOrder(orders, mon[m].order.order_id).status]
    /\ UNCHANGED <<orders, ticks, funded, paylinks, notifs, creates, restarts, calls, succ, ui,
                   hooks, sw, hd, conn, loop>>

NextReread ==
    \E m \in Monitors :
        M_Balance(m) \/ M_RereadLogged(m) \/ M_MarkPaid(m) \/ M_Execute(m) \/ M_Finish(m)

SpecReread == InitTwice /\ [][NextReread]_vars

\* ------------------------------------------------- one balance comparison
\* The comparison of check_ton_payment and check_trc20_payment on its own: an
\* order's amount (in millionths of a USDT: the three configured prices, and
\* the prices MinCents..MaxCents cents) against a balance within Slack units
\* of it.
MinCents == 3190
MaxCents == 3220
Slack == 1

ConfigPrices == {28 * Million, 52 * Million, 96 * Million}

Amounts == ConfigPrices \cup {c * (Million \div 100) : c \in MinCents..MaxCents}

CheckPayment(rail, micro, balance) ==
    /\ obs' = [op |-> "check_payment", rail |-> rail, amount |-> micro, balance |-> balance,
               promoted |-> BalanceSuffices(balance, micro)]
    /\ UNCHANGED program

NextBalance ==
    \E rail \in {"ton", "trc20"}, micro \in Amounts :
        \E balance \in (micro - Slack)..(micro + Slack) : CheckPayment(rail, micro, balance)

SpecBalance == Init /\ [][NextBalance]_vars

\* -------------------------------------------------------------- web_app.py
\* One callback from the request to the response, served on its own.
OKPAY_ID == "shop"
OKPAY_SECRET == "secret"

\* The value of the "data" field: a JSON object with the three entries the
\* code reads (unique_id 0, type None: no such entry), some other JSON value,
\* or nothing.
DataObject(uid, payType, flag) ==
    [kind |-> "object", unique_id |-> uid, type |-> payType, status |-> flag]
NoData == [kind |-> "null", unique_id |-> 0, type |-> None, status |-> 0]
TextData == [kind |-> "text", unique_id |-> 0, type |-> None, status |-> 0]

\* v != '' and v is not None, for the value v of entry k.
NonEmpty(k, v) == IF k = "data" THEN v.kind # "null" ELSE v \notin {"", None}

\* _generate_sign: the entries with id set to the shop's own id, the empty
\* ones dropped, in key order, and the secret after them; the digest of that
\* text in upper-case hexadecimal. MD5 is taken to be free of collisions: the
\* digest stands for the text it was computed from.
GenerateSign(data, secret) ==
    LET data_with_id == [k \in DOMAIN data \cup {"id"} |->
                            IF k = "id" THEN OKPAY_ID ELSE data[k]]
        kept == {k \in DOMAIN data_with_id : NonEmpty(k, data_with_id[k])}
    IN [raw |-> [query |-> [k \in kept |-> data_with_id[k]], token |-> secret],
        hex |-> "upper"]

\* The digest of the entries as they were received: as _generate_sign forms
\* it, but with the "id" entry left as it came.
PayloadDigest(data, secret) ==
    LET kept == {k \in DOMAIN data : NonEmpty(k, data[k])}
    IN [raw |-> [query |-> [k \in kept |-> data[k]], token |-> secret], hex |-> "upper"]

\* The same digest written in lower case.
Lower(sign) == [sign EXCEPT !.hex = "lower"]

\* No "sign" entry (or an empty one).
NoSign == [raw |-> [query |-> [k \in {} |-> None], token |-> None], hex |-> "none"]

\* data.copy() without its "sign" entry.
DataToCheck(data) == [k \in DOMAIN data \ {"sign"} |-> data[k]]

\* verify_sign
VerifySign(data) ==
    IF data.sign = NoSign THEN FALSE
    ELSE data.sign = GenerateSign(DataToCheck(data), OKPAY_SECRET)

\* order.get("status") == "completed"
NeverCompleted(order) == FALSE
AlreadyCompleted(order) == order.status = "completed"

\* handle_notification run from its first line to its return, with the
\* outcome the purchase has if it is reached: what it returns, the table it
\* leaves, whether execute_purchase was called, and the messages it sent.
HandleNotification(tbl, callback_data, outcome) ==
    LET unique_id == callback_data.unique_id
        order == DbGetOrder(tbl, unique_id)
        untouched == [orders |-> tbl, invoked |-> FALSE, messages |-> 0]
        marked == IF order.status # "paid"
                  THEN DbUpdateOrderStatus(tbl, unique_id, "paid") ELSE tbl
        notices == IF order.status # "paid" THEN 1 ELSE 0
    IN IF unique_id = 0 THEN [result |-> FALSE] @@ untouched
       ELSE IF callback_data.type # "deposit" \/ callback_data.status # 1
            THEN [result |-> TRUE] @@ untouched
       ELSE IF order.status = "absent" THEN [result |-> TRUE] @@ untouched
       ELSE IF AlreadyCompleted(order) THEN [result |-> TRUE] @@ untouched
       ELSE IF outcome # "raise" /\ PurchaseResult(outcome).success
            THEN [result |-> TRUE,
                  orders |-> DbUpdateOrderStatus(marked, unique_id, "completed"),
                  invoked |-> TRUE, messages |-> notices + 1]
       ELSE [result |-> TRUE, orders |-> DbUpdateOrderStatus(marked, unique_id, "checking"),
             invoked |-> TRUE, messages |-> notices]

Response(code, text) == [status |-> code, message |-> text]

\* The response after handle_notification has returned.
AcknowledgeInverted(success) ==
    IF success THEN Response(400, "Process failed") ELSE Response(200, "OK")
Acknowledge(success) ==
    IF success THEN Response(200, "OK") ELSE Response(400, "Process failed")

\* handle_okpay_notify up to the call of handle_notification: the response
\* it returns before that, or "handle" when it goes on to the call.
Gate(req, allowed) ==
    IF allowed # {} /\ req.ip \notin allowed THEN Response(403, "Unauthorized IP")
    ELSE IF req.method = "GET" THEN Response(200, "page")
    ELSE IF req.method # "POST" THEN Response(405, "Method not allowed")
    ELSE IF req.json = "invalid" THEN Response(400, "Invalid JSON")
    ELSE IF req.json # "object" THEN Response(500, "Internal error")
    ELSE IF ~VerifySign(req.body) THEN Response(403, "Invalid signature")
    ELSE IF req.body.data.kind # "object" THEN Response(400, "Missing data")
    ELSE IF req.body.data.type # "deposit" THEN Response(200, "Ignored")
    ELSE IF req.body.data.status # 1 THEN Response(200, "Pending")
    ELSE Response(0, "handle")

\* handle_okpay_notify for one request, under the allow-list the deployment
\* has: the response, and what handle_notification did if it was called.
\* One request is followed, the first one served.
HandleOkpayNotify(req, allowed, outcome) ==
    LET early == Gate(req, allowed)
        done == HandleNotification(orders, req.body.data, outcome)
        seen(response, messages) ==
            [op |-> "notify", req |-> req, allowed |-> allowed, response |-> response,
             messages |-> messages]
    IN /\ obs = NoObs
       /\ IF early.message # "handle"
          THEN /\ obs' = seen(early, 0)
               /\ UNCHANGED program
          ELSE /\ obs' = seen(Acknowledge(done.result), done.messages)
               /\ orders' = done.orders
               /\ IF done.invoked THEN Invoke(req.body.data.unique_id, outcome)
                  ELSE UNCHANGED <<calls, succ>>
               /\ UNCHANGED <<ticks, funded, paylinks, notifs, creates, restarts, ui, mon,
                              hooks, sw, hd, conn, loop>>

\* The requests served: from the gateway's address or another, with any
\* method; a POST carries text that is no JSON, JSON that is no object, or
\* an object. The object's signature is missing, or was made with the secret
\* or a guessed one, over this object or one that differs from it in one
\* entry (an entry altered after signing).
DataValues ==
    {NoData, TextData} \cup
    {DataObject(uid, payType, flag) :
        uid \in OrderIds \cup {0}, payType \in {"deposit", "withdraw"}, flag \in {0, 1}}

Payloads == [id : {OKPAY_ID, "other"}, memo : {"", "memo"}, data : DataValues]

EntriesAltered(p, q) ==
    Cardinality({k \in {"id", "memo"} : p[k] # q[k]})
    + Cardinality({k \in {"kind", "unique_id", "type", "status"} : p.data[k] # q.data[k]})

Signatures(p) ==
    {NoSign, GenerateSign(p, OKPAY_SECRET), Lower(GenerateSign(p, OKPAY_SECRET)),
     GenerateSign(p, "guess")}
    \cup {GenerateSign(q, OKPAY_SECRET) : q \in {x \in Payloads : EntriesAltered(p, x) = 1}}

Signed(p, sign) == [sign |-> sign, id |-> p.id, memo |-> p.memo, data |-> p.data]

NoBody == Signed([id |-> None, memo |-> None, data |-> NoData], NoSign)

Requests ==
    {[ip |-> ip, method |-> method, json |-> "none", body |-> NoBody] :
        ip \in {"gateway", "elsewhere"}, method \in {"GET", "PUT"}}
    \cup {[ip |-> ip, method |-> "POST", json |-> json, body |-> NoBody] :
        ip \in {"gateway", "elsewhere"}, json \in {"invalid", "array"}}
    \cup UNION {{[ip |-> ip, method |-> "POST", json |-> "object", body |-> Signed(p, sign)] :
                    ip \in {"gateway", "elsewhere"}, sign \in Signatures(p)} : p \in Payloads}

\* OKPAY_ALLOWED_IPS: not set (every address passes), or the gateway's.
AllowLists == {{}, {"gateway"}}

\* One OkPay order, placed and with its pay link, in any status it can have.
InitNotify ==
    \E u \in Users, tg \in Targets, m \in Months,
       st \in {"pending", "checking", "paid", "completed", "expired"} :
        LET o == OrderId(1, u)
            row == [id |-> 1, order_id |-> o, status |-> st, user_id |-> u, target |-> tg,
                    months |-> m, wallet_index |-> WalletIndex(u, tg, m),
                    payment_method |-> "okpay", ton_addr |-> 0, trc20_addr |-> 0,
                    created_at |-> 0]
        IN /\ orders = [x \in OrderIds |-> IF x = o THEN row ELSE Absent(x)]
           /\ paylinks = {o}
           /\ funded = {}
           /\ ticks = 0
           /\ notifs = 0
           /\ creates = 1
           /\ restarts = 0
           /\ calls = [x \in OrderIds |-> 0]
           /\ succ = [x \in OrderIds |-> 0]
           /\ ui = UiIdle
           /\ mon = [k \in Monitors |-> MonIdle]
           /\ hooks = [h \in Handlers |-> HookIdle]
           /\ sw = SwIdle
           /\ obs = NoObs
           /\ hd = HdInit
           /\ conn = ConnInit
           /\ loop = LoopInit

NextNotify ==
    \E req \in Requests, allowed \in AllowLists, outcome \in Outcomes :
        HandleOkpayNotify(req, allowed, outcome)

SpecNotify == InitNotify /\ [][NextNotify]_vars

\* ------------------------------------------------- services/hd_wallet.py
\* _load_jetton_wallet_code_once: the cached cell, or result[3] of
\* get_jetton_data (answer: what the call gives), which is then cached.
LoadJettonWalletCodeEachTime(h, answer) ==
    IF ~h.connected \/ answer # "stack" THEN [raised |-> TRUE, code |-> None, hd |-> h]
    ELSE [raised |-> FALSE, code |-> GetJettonData[3 + 1],
          hd |-> [h EXCEPT !.code_cache = GetJettonData[3 + 1]]]
LoadJettonWalletCodeOnce(h, answer) ==
    IF h.code_cache # None THEN [raised |-> FALSE, code |-> h.code_cache, hd |-> h]
    ELSE IF ~h.connected \/ answer # "stack" THEN [raised |-> TRUE, code |-> None, hd |-> h]
    ELSE [raised |-> FALSE, code |-> GetJettonData[3 + 1],
          hd |-> [h EXCEPT !.code_cache = GetJettonData[3 + 1]]]

\* _compute_jetton_wallet_address_locally
ComputeJettonWalletAddressLocally(index, wallet_code) == StateInitAddress(wallet_code, index)

\* generate_usdt_jetton_wallet for one index, with what the network does
\* during the call: whether ensure_connected succeeds, what
\* get_wallet_address gives ("address", "empty" or "error") and what
\* get_jetton_data gives ("stack", "short" or "error").
GenerateBestEffort(h, index, net) ==
    [raised |-> FALSE, jetton_addr |-> SafeIndex(index), path |-> "none", hd |-> h]
GenerateUsdtJettonWallet(h, index, net) ==
    LET connected == [h EXCEPT !.connected = TRUE]
        loaded == LoadJettonWalletCodeOnce(connected, net.jetton_data)
    IN IF net.connect # "ok"
       THEN [raised |-> TRUE, jetton_addr |-> 0, path |-> "none",
             hd |-> [h EXCEPT !.connected = FALSE]]
       ELSE IF net.lookup = "address"
            THEN [raised |-> FALSE, jetton_addr |-> JettonAddr(index), path |-> "chain",
                  hd |-> connected]
       ELSE IF loaded.raised
            THEN [raised |-> TRUE, jetton_addr |-> 0, path |-> "none", hd |-> loaded.hd]
       ELSE [raised |-> FALSE,
             jetton_addr |-> ComputeJettonWalletAddressLocally(index, loaded.code),
             path |-> "local", hd |-> loaded.hd]

Networks ==
    [connect : {"ok", "fail"}, lookup : {"address", "empty", "error"},
     jetton_data : {"stack", "short", "error"}]

\* process_currency for a rail-A order from the derivation of its address to
\* the message shown (0: the failure text, without an address).
U_WalletDerived(net) ==
    /\ ui.pc = "wallet"
    /\ ui.rail = "ton"
    /\ LET got == GenerateUsdtJettonWallet(hd, ui.index, net)
       IN /\ hd' = got.hd
          /\ obs' = [op |-> "derive", id |-> ui.id, index |-> ui.index, net |-> net,
                     raised |-> got.raised, jetton_addr |-> got.jetton_addr,
                     path |-> got.path,
                     shown |-> IF got.raised THEN 0 ELSE got.jetton_addr]
          /\ orders' = IF got.raised THEN orders
                       ELSE DbUpdateOrderWallet(orders, ui.id, got.jetton_addr, 0)
    /\ ui' = UiIdle
    /\ UNCHANGED <<ticks, funded, paylinks, notifs, creates, restarts, calls, succ, mon, hooks,
                   sw, conn, loop>>

\* Orders are placed on the two rails that derive an address, and each gets
\* its address.
NextDerive ==
    \/ \E t \in 1..MaxTime, u \in Users, tg \in Targets, m \in Months, rail \in {"ton", "trc20"} :
          U_Create(t, u, tg, m, rail)
    \/ \E net \in Networks : U_WalletDerived(net)
    \/ (ui.rail = "trc20" /\ U_Wallet)

SpecDerive == Init /\ [][NextDerive]_vars

\* ------------------------------------------------- the two success paths
\* Monitor._process_success and OkPayService.handle_notification side by
\* side: each is given an order of its own, the two orders in the same
\* status, and execute_purchase answers both in the same way (obs.outcome).
\* The monitor's order is on a blockchain rail and the task is past the
\* balance query; the handler's order is an OkPay order with its pay link.
MonitorOrder == OrderId(1, 1)
WebhookOrder == OrderId(2, 1)

PathRow(o, rail, st) ==
    [id |-> o \div 10, order_id |-> o, status |-> st, user_id |-> 1, target |-> 7,
     months |-> 3, wallet_index |-> WalletIndex(1, 7, 3), payment_method |-> rail,
     ton_addr |-> IF rail = "ton" THEN JettonAddr(WalletIndex(1, 7, 3)) ELSE 0,
     trc20_addr |-> IF rail = "trc20" THEN Trc20Addr(WalletIndex(1, 7, 3)) ELSE 0,
     created_at |-> 0]

InitPaths ==
    \E st \in {"pending", "checking", "paid"}, outcome \in Outcomes, rail \in {"ton", "trc20"} :
        /\ orders = [x \in OrderIds |->
                        IF x = MonitorOrder THEN PathRow(x, rail, st)
                        ELSE IF x = WebhookOrder THEN PathRow(x, "okpay", st)
                        ELSE Absent(x)]
        /\ funded = {<<rail, QueriedAddr(PathRow(MonitorOrder, rail, st))>>}
        /\ mon = [k \in Monitors |->
                     IF k = MainMonitor
                     THEN [pc |-> "reread", batch |-> <<>>,
                           order |-> PathRow(MonitorOrder, rail, st), res |-> "none"]
                     ELSE MonIdle]
        /\ paylinks = {WebhookOrder}
        /\ obs = [op |-> "paths", status |-> st, outcome |-> outcome]
        /\ ticks = 0
        /\ notifs = 0
        /\ creates = 2
        /\ restarts = 0
        /\ calls = [x \in OrderIds |-> 0]
        /\ succ = [x \in OrderIds |-> 0]
        /\ ui = UiIdle
        /\ hooks = [h \in Handlers |-> HookIdle]
        /\ sw = SwIdle
        /\ hd = HdInit
        /\ conn = ConnInit
        /\ loop = LoopInit

\* execute_purchase answered the monitor's task as obs.outcome says.
MonitorGot(outcome) ==
    IF outcome = "raise" THEN mon'[MainMonitor].pc # "finish"
    ELSE mon'[MainMonitor].pc = "finish" /\ mon'[MainMonitor].res = outcome

\* execute_purchase answered the handler as obs.outcome says.
WebhookGot(h, outcome) ==
    IF outcome = "raise" THEN hooks'[h].pc = "except"
    ELSE hooks'[h].pc = "finish" /\ hooks'[h].res = outcome

NextPaths ==
    \/ M_Reread(MainMonitor)
    \/ M_MarkPaid(MainMonitor)
    \/ (M_Execute(MainMonitor) /\ MonitorGot(obs.outcome))
    \/ M_Finish(MainMonitor)
    \/ (notifs = 0 /\ W_Arrive(1, WebhookOrder, "deposit", 1))
    \/ W_MarkPaid(1)
    \/ (W_Execute(1) /\ WebhookGot(1, obs.outcome))
    \/ W_Finish(1)
    \/ W_Except(1)

SpecPaths == InitPaths /\ [][NextPaths]_vars

\* Both paths have run to their end.
PathsDone ==
    /\ obs.op = "paths"
    /\ mon[MainMonitor].pc = "sleep"
    /\ notifs = 1
    /\ hooks[1] = HookIdle

\* ------------------------------------------------- one monitor's cycles
\* The monitor alone with two blockchain-rail orders in its batch, each in
\* checking or paid, their addresses funded or not; the user may cancel an
\* order while the cycle is on it.
InitCycle ==
    \E r1, r2 \in {"ton", "trc20"}, s1, s2 \in {"checking", "paid"} :
        \E f \in SUBSET {<<r1, QueriedAddr(PathRow(MonitorOrder, r1, s1))>>,
                         <<r2, QueriedAddr(PathRow(WebhookOrder, r2, s2))>>} :
            /\ orders = [x \in OrderIds |->
                            IF x = MonitorOrder THEN PathRow(x, r1, s1)
                            ELSE IF x = WebhookOrder THEN PathRow(x, r2, s2)
                            ELSE Absent(x)]
            /\ funded = f
            /\ mon = [k \in Monitors |-> MonIdle]
            /\ paylinks = {}
            /\ obs = NoObs
            /\ ticks = 0
            /\ notifs = 0
            /\ creates = 2
            /\ restarts = 0
            /\ calls = [x \in OrderIds |-> 0]
            /\ succ = [x \in OrderIds |-> 0]
            /\ ui = UiIdle
            /\ hooks = [h \in Handlers |-> HookIdle]
            /\ sw = SwIdle
            /\ hd = HdInit
            /\ conn = ConnInit
            /\ loop = LoopInit

NextCycle ==
    \/ M_Start(MainMonitor)
    \/ M_Balance(MainMonitor)
    \/ ProcessSuccess(MainMonitor)
    \/ \E o \in OrderIds : U_Cancel(o)

SpecCycle == InitCycle /\ [][NextCycle]_vars

\* The orders of its batch a task has still to query.
Unvisited(task) == {task.batch[i] : i \in {k \in 1..Len(task.batch) : ~Skipped(task.batch[k])}}

\* ------------------------------------------------- a cycle's connection
\* check_orders with its first step on record: whether ensure_connected gave
\* a client, and the orders the cycle set out to check.
M_StartLogged(m) ==
    /\ mon[m].pc = "sleep"
    /\ \E connected \in BOOLEAN, b \in DbGetAllCheckingOrders(orders) :
          /\ mon' = [mon EXCEPT ![m] = IF connected THEN LoopFrom(b) ELSE MonIdle]
          /\ obs' = [op |-> "check_orders", connected |-> connected,
                     batch |-> IF connected THEN b ELSE <<>>]
    /\ UNCHANGED <<orders, ticks, funded, paylinks, notifs, creates, restarts, calls, succ, ui,
                   hooks, sw, hd, conn, loop>>

NextConnect ==
    \/ M_StartLogged(MainMonitor)
    \/ M_Balance(MainMonitor)
    \/ ProcessSuccess(MainMonitor)
    \/ \E o \in OrderIds : U_Cancel(o)

SpecConnect == InitCycle /\ [][NextConnect]_vars

\* A rail-B order the monitor has to check.
RailBOutstanding(o) ==
    /\ orders[o].status \in {"checking", "paid"}
    /\ orders[o].payment_method = "trc20"
    /\ orders[o].trc20_addr # 0

\* ------------------------------------------------- the cleaner's sweeps
\* The cleaner and the users alone: orders are placed (on rail B, the rail
\* being nothing the cleaner reads) and cancelled, time passes, and the sweeps
\* run.
NextSweep ==
    \/ \E t \in 1..MaxTime, u \in Users, tg \in Targets, m \in Months :
          U_Create(t, u, tg, m, "trc20")
    \/ U_Wallet
    \/ \E o \in OrderIds : U_Cancel(o)
    \/ Tick
    \/ SweeperNext

SpecSweep == Init /\ [][NextSweep]_vars

\* The orders of its batch the pending sweep has still to come to.
ToSweep(s) == {s.batch[i].order_id : i \in 2..Len(s.batch)}

\* ------------------------------------------------- the shared connection
\* ensure_connected between its awaits, for each of its callers. A client is
\* "connecting" from LiteClient.from_*_config to the end of connect(),
\* "connected" while is_connected holds, "dropped" when the connection is
\* lost, "closed" after close() and "failed" when connect() raised.
Release(c) == IF c \in Locking THEN "free" ELSE conn.lock

\* self.client = LiteClient.from_..._config(...) and the start of connect().
MakeClient(c, st, lock) ==
    LET new == CHOOSE x \in Clients :
                  st[x] = "unborn" /\ \A y \in Clients : y < x => st[y] # "unborn"
    IN /\ \E x \in Clients : st[x] = "unborn"
       /\ conn' = [client |-> new, state |-> [st EXCEPT ![new] = "connecting"], lock |-> lock,
                   task |-> [conn.task EXCEPT ![c] = [pc |-> "connecting", mine |-> new]]]

\* The caller enters (through the lock if it comes from
\* generate_usdt_jetton_wallet): a connected client is returned at once; a
\* client that is not connected is closed first; without a client one is made.
EC_Enter(c) ==
    /\ conn.task[c].pc = "idle"
    /\ c \in Locking => conn.lock = "free"
    /\ LET lock == IF c \in Locking THEN c ELSE conn.lock
           cl == conn.client
       IN IF cl # 0 /\ conn.state[cl] = "connected"
          THEN conn' = [conn EXCEPT !.lock = lock,
                                    !.task[c] = [pc |-> "using", mine |-> cl]]
          ELSE IF cl # 0
               THEN conn' = [conn EXCEPT !.lock = lock,
                                         !.task[c] = [pc |-> "closing", mine |-> cl]]
               ELSE MakeClient(c, conn.state, lock)
    /\ UNCHANGED <<orders, ticks, funded, paylinks, notifs, creates, restarts, calls, succ, ui,
                   mon, hooks, sw, obs, hd, loop>>

\* await self.client.close() is over (an exception is passed over): the old
\* client is closed and a new one is made.
EC_Closed(c) ==
    /\ conn.task[c].pc = "closing"
    /\ MakeClient(c, [conn.state EXCEPT ![conn.task[c].mine] = "closed"], conn.lock)
    /\ UNCHANGED <<orders, ticks, funded, paylinks, notifs, creates, restarts, calls, succ, ui,
                   mon, hooks, sw, obs, hd, loop>>

\* await self.client.connect() is over. On success the caller goes on with
\* self.client as it is now; on failure self.client is set to None and
\* ConnectionError is raised.
EC_Connected(c, ok) ==
    /\ conn.task[c].pc = "connecting"
    /\ LET x == conn.task[c].mine
           live == conn.state[x] = "connecting"
       IN IF ok /\ live
          THEN conn' = [conn EXCEPT !.state[x] = "connected",
                                    !.task[c] = [pc |-> "using", mine |-> conn.client]]
          ELSE conn' = [conn EXCEPT !.state[x] = IF live THEN "failed" ELSE @,
                                    !.client = 0,
                                    !.lock = Release(c),
                                    !.task[c] = CallerIdle]
    /\ UNCHANGED <<orders, ticks, funded, paylinks, notifs, creates, restarts, calls, succ, ui,
                   mon, hooks, sw, obs, hd, loop>>

\* The caller has made its calls on the client and is done.
EC_Return(c) ==
    /\ conn.task[c].pc = "using"
    /\ conn' = [conn EXCEPT !.lock = Release(c), !.task[c] = CallerIdle]
    /\ UNCHANGED <<orders, ticks, funded, paylinks, notifs, creates, restarts, calls, succ, ui,
                   mon, hooks, sw, obs, hd, loop>>

\* A connected client loses its connection.
Drop(x) ==
    /\ conn.state[x] = "connected"
    /\ conn' = [conn EXCEPT !.state[x] = "dropped"]
    /\ UNCHANGED <<orders, ticks, funded, paylinks, notifs, creates, restarts, calls, succ, ui,
                   mon, hooks, sw, obs, hd, loop>>

NextConnection ==
    \/ \E c \in Callers : EC_Enter(c)
    \/ \E c \in Callers : EC_Closed(c)
    \/ \E c \in Callers, ok \in BOOLEAN : EC_Connected(c, ok)
    \/ \E c \in Callers : EC_Return(c)
    \/ \E x \in Clients : Drop(x)

SpecConnection == Init /\ [][NextConnection]_vars

\* Caller d is connecting or using client x and takes no part in the step.
Bystander(d, x) ==
    /\ conn.task[d].mine = x
    /\ conn.task[d].pc \in {"connecting", "using"}
    /\ conn'.task[d] = conn.task[d]

\* ------------------------------------------------- addresses of two indices
\* Wallet indices as process_currency computes them (a value below
\* IndexModulus): the ends of the range and the values around 2 ** 16, where
\* the low half of the reduced index wraps.
SampleIndices == {0, 1, 65535, 65536, 65537, IndexModulus - 1}

\* generate_usdt_jetton_wallet for one index and then for another, each with
\* what the network does during its call; the manager keeps its cache from
\* the first call to the second.
DeriveJettonPair(i, j, n1, n2) ==
    /\ obs = NoObs
    /\ LET a == GenerateUsdtJettonWallet(hd, i, n1)
           b == GenerateUsdtJettonWallet(a.hd, j, n2)
       IN /\ hd' = b.hd
          /\ obs' = [op |-> "pair", rail |-> "ton", first |-> i, second |-> j,
                     first_addr |-> a.jetton_addr, second_addr |-> b.jetton_addr,
                     first_path |-> a.path, second_path |-> b.path]
    /\ UNCHANGED <<orders, ticks, funded, paylinks, notifs, creates, restarts, calls, succ, ui,
                   mon, hooks, sw, conn, loop>>

\* generate_trc20_wallet for one index and then for another.
DeriveTrc20Pair(i, j) ==
    /\ obs = NoObs
    /\ obs' = [op |-> "pair", rail |-> "trc20", first |-> i, second |-> j,
               first_addr |-> Trc20Addr(i), second_addr |-> Trc20Addr(j),
               first_path |-> "hd", second_path |-> "hd"]
    /\ UNCHANGED <<orders, ticks, funded, paylinks, notifs, creates, restarts, calls, succ, ui,
                   mon, hooks, sw, hd, conn, loop>>

NextIndices ==
    \/ \E i, j \in SampleIndices, n1, n2 \in Networks : DeriveJettonPair(i, j, n1, n2)
    \/ \E i, j \in SampleIndices : DeriveTrc20Pair(i, j)

SpecIndices == Init /\ [][NextIndices]_vars

\* ------------------------------------------------- the success notification
\* The two success paths with the message to the user as a step of its own:
\* obs counts the messages sent about each order (sent), keeps the orders
\* whose message could not be delivered (lost) and the re-reads that found no
\* row (gone).
InitNotice ==
    \E st \in {"pending", "checking", "paid"}, rail \in {"ton", "trc20"} :
        /\ orders = [x \in OrderIds |->
                        IF x = MonitorOrder THEN PathRow(x, rail, st)
                        ELSE IF x = WebhookOrder THEN PathRow(x, "okpay", st)
                        ELSE Absent(x)]
        /\ funded = {<<rail, QueriedAddr(PathRow(MonitorOrder, rail, st))>>}
        /\ mon = [k \in Monitors |->
                     IF k = MainMonitor
                     THEN [pc |-> "reread", batch |-> <<>>,
                           order |-> PathRow(MonitorOrder, rail, st), res |-> "none"]
                     ELSE MonIdle]
        /\ paylinks = {WebhookOrder}
        /\ obs = [op |-> "notice", sent |-> [x \in OrderIds |-> 0], lost |-> {}, gone |-> {}]
        /\ ticks = 0
        /\ notifs = 0
        /\ creates = 2
        /\ restarts = 0
        /\ calls = [x \in OrderIds |-> 0]
        /\ succ = [x \in OrderIds |-> 0]
        /\ ui = UiIdle
        /\ hooks = [h \in Handlers |-> HookIdle]
        /\ sw = SwIdle
        /\ hd = HdInit
        /\ conn = ConnInit
        /\ loop = LoopInit

\* bot.send_message about order o: it is delivered or it raises.
SendMessage(o, delivered) ==
    [obs EXCEPT !.sent[o] = Bump(@), !.lost = IF delivered THEN @ ELSE @ \cup {o}]

\* _process_success from "if success:" to the write that follows it; after a
\* completed write the message to the user is next, if the order names one.
M_FinishWrite(m) ==
    /\ mon[m].pc = "finish"
    /\ orders' = DbUpdateOrderStatus(orders, mon[m].order.order_id,
                     IF MonitorSuccess(mon[m].res) THEN "completed" ELSE "checking")
    /\ mon' = [mon EXCEPT ![m] =
                  IF MonitorSuccess(@.res) /\ @.order.user_id # 0
                  THEN [@ EXCEPT !.pc = "notice"]
                  ELSE LoopFrom(@.batch)]
    /\ UNCHANGED <<ticks, funded, paylinks, notifs, creates, restarts, calls, succ, ui, hooks,
                   sw, obs, hd, conn, loop>>

\* _process_success, the message in its own try: an exception is logged and
\* the function ends as it does after a delivery.
M_Notice(m) ==
    /\ mon[m].pc = "notice"
    /\ \E delivered \in BOOLEAN : obs' = SendMessage(mon[m].order.order_id, delivered)
    /\ mon' = [mon EXCEPT ![m] = LoopFrom(@.batch)]
    /\ UNCHANGED <<orders, ticks, funded, paylinks, notifs, creates, restarts, calls, succ, ui,
                   hooks, sw, hd, conn, loop>>

\* handle_notification from result.get("success") to the write that follows
\* it; after a completed write the message to the user is next (main.py
\* gives the service its bot).
W_FinishWrite(h) ==
    /\ hooks[h].pc = "finish"
    /\ orders' = DbUpdateOrderStatus(orders, hooks[h].id,
                     IF PurchaseResult(hooks[h].res).success THEN "completed" ELSE "checking")
    /\ hooks' = [hooks EXCEPT ![h] =
                    IF PurchaseResult(@.res).success THEN [@ EXCEPT !.pc = "notice"]
                    ELSE HookIdle]
    /\ UNCHANGED <<ticks, funded, paylinks, notifs, creates, restarts, calls, succ, ui, mon, sw,
                   obs, hd, conn, loop>>

\* Where the handler is after the message: "except Exception: pass" around
\* send_message lets it return True in both cases.
AfterNoticeUnguarded(task, delivered) ==
    IF delivered THEN HookIdle ELSE [task EXCEPT !.pc = "except"]
AfterNotice(task, delivered) == HookIdle

W_Notice(h) ==
    /\ hooks[h].pc = "notice"
    /\ \E delivered \in BOOLEAN :
          /\ obs' = SendMessage(hooks[h].id, delivered)
          /\ hooks' = [hooks EXCEPT ![h] = AfterNotice(@, delivered)]
    /\ UNCHANGED <<orders, ticks, funded, paylinks, notifs, creates, restarts, calls, succ, ui,
                   mon, sw, hd, conn, loop>>

\* The monitor goes on cycling after its first order; OkPay sends one
\* notification.
NextNotice ==
    \/ M_Start(MainMonitor)
    \/ M_Balance(MainMonitor)
    \/ M_Reread(MainMonitor)
    \/ M_MarkPaid(MainMonitor)
    \/ M_Execute(MainMonitor)
    \/ M_FinishWrite(MainMonitor)
    \/ M_Notice(MainMonitor)
    \/ (notifs = 0 /\ W_Arrive(1, WebhookOrder, "deposit", 1))
    \/ W_MarkPaid(1)
    \/ W_Execute(1)
    \/ W_FinishWrite(1)
    \/ W_Notice(1)
    \/ W_Except(1)

SpecNotice == InitNotice /\ [][NextNotice]_vars

\* A task stands between a successful execute_purchase for o and the write
\* that follows it.
AboutToSettle(o) ==
    \/ \E m \in Monitors : mon[m].pc = "finish" /\ mon[m].order.order_id = o
    \/ \E h \in Handlers : hooks[h].pc = "finish" /\ hooks[h].id = o

\* ------------------------------------------------- one verified deposit
\* The price of an order: the configured price of its duration (the fallback
\* of select_months; 28 USDT for any other duration), in millionths of a USDT.
PriceUsdt(months) ==
    IF months = 3 THEN 28 * Million
    ELSE IF months = 6 THEN 52 * Million
    ELSE IF months = 12 THEN 96 * Million
    ELSE 28 * Million

\* The "data" object of a deposit callback with the success flag: the order
\* it names and the amount it reports, in millionths of a USDT.
DepositData(uid, amount) ==
    [kind |-> "object", unique_id |-> uid, type |-> "deposit", status |-> 1, amount |-> amount]

\* The amounts a callback about an order of some duration reports: the price,
\* one unit less, and one unit in all.
ReportedAmounts == UNION {{PriceUsdt(m), PriceUsdt(m) - 1, 1} : m \in Months}

\* One order of any rail, with what its rail stores for it, in any status.
InitDeposit ==
    \E u \in Users, tg \in Targets, m \in Months, rail \in Rails,
       st \in {"pending", "checking", "paid", "completed", "expired"} :
        LET o == OrderId(1, u)
            idx == WalletIndex(u, tg, m)
            row == [id |-> 1, order_id |-> o, status |-> st, user_id |-> u, target |-> tg,
                    months |-> m, wallet_index |-> idx, payment_method |-> rail,
                    ton_addr |-> IF rail = "ton" THEN JettonAddr(idx) ELSE 0,
                    trc20_addr |-> IF rail = "trc20" THEN Trc20Addr(idx) ELSE 0,
                    created_at |-> 0]
        IN /\ orders = [x \in OrderIds |-> IF x = o THEN row ELSE Absent(x)]
           /\ paylinks = IF rail = "okpay" THEN {o} ELSE {}
           /\ funded = {}
           /\ ticks = 0
           /\ notifs = 0
           /\ creates = 1
           /\ restarts = 0
           /\ calls = [x \in OrderIds |-> 0]
           /\ succ = [x \in OrderIds |-> 0]
           /\ ui = UiIdle
           /\ mon = [k \in Monitors |-> MonIdle]
           /\ hooks = [h \in Handlers |-> HookIdle]
           /\ sw = SwIdle
           /\ obs = NoObs
           /\ hd = HdInit
           /\ conn = ConnInit
           /\ loop = LoopInit

\* handle_okpay_notify from the call of handle_notification on, for a
\* callback that passed the allow-list and the signature check and is a
\* deposit with the success flag: the order as it was, and what was done.
W_Verified(uid, amount, outcome) ==
    LET data == DepositData(uid, amount)
        done == HandleNotification(orders, data, outcome)
    IN /\ obs = NoObs
       /\ obs' = [op |-> "deposit", data |-> data, order |-> DbGetOrder(orders, uid),
                  invoked |-> done.invoked, response |-> Acknowledge(done.result)]
       /\ orders' = done.orders
       /\ IF done.invoked THEN Invoke(uid, outcome) ELSE UNCHANGED <<calls, succ>>
       /\ UNCHANGED <<ticks, funded, paylinks, notifs, creates, restarts, ui, mon, hooks, sw,
                      hd, conn, loop>>

NextDeposit ==
    \E uid \in OrderIds, amount \in ReportedAmounts, outcome \in Outcomes :
        W_Verified(uid, amount, outcome)

SpecDeposit == InitDeposit /\ [][NextDeposit]_vars

\* The callback on record changed the order it names or had
\* FulfillmentProvider invoked for it.
Acted(ob) == ob.invoked \/ orders[ob.data.unique_id] # ob.order

\* ------------------------------------------------- an order deleted in between
\* The monitor with an order in hand (its balance found sufficient, the
\* re-read next) while the user cancels orders and the cleaner sweeps. A
\* re-read that finds no row is put on record with the invocations and the
\* messages the order had had by then.
M_RereadNoted(m) ==
    LET o == mon[m].order.order_id
    IN /\ mon[m].pc = "reread"
       /\ mon' = [mon EXCEPT ![m] = Reread(orders, @)]
       /\ obs' = IF DbGetOrder(orders, o).status = "absent"
                 THEN [obs EXCEPT !.gone = @ \cup {[order_id |-> o, calls |-> calls[o],
                                                    sent |-> obs.sent[o]]}]
                 ELSE obs
       /\ UNCHANGED <<orders, ticks, funded, paylinks, notifs, creates, restarts, calls, succ,
                      ui, hooks, sw, hd, conn, loop>>

NextDeleted ==
    \/ M_Start(MainMonitor)
    \/ M_Balance(MainMonitor)
    \/ M_RereadNoted(MainMonitor)
    \/ M_MarkPaid(MainMonitor)
    \/ M_Execute(MainMonitor)
    \/ M_FinishWrite(MainMonitor)
    \/ M_Notice(MainMonitor)
    \/ \E o \in OrderIds : U_Cancel(o)
    \/ Tick
    \/ SweeperNext

SpecDeleted == InitNotice /\ [][NextDeleted]_vars

\* ------------------------------------------------- the monitor's loop
\* Monitor.start, check_orders_loop and Monitor.stop, with one cycle as one
\* step: obs counts the cycles begun and the cycles that raised, and keeps
\* what the last cycle met.
MaxCycles == 3        \* cycles the loop begins in one behaviour

\* What a cycle meets: nothing, a failed connection (check_orders logs it and
\* returns), an error of the store inside check_orders, or one in the loop's
\* own query after it.
CycleOutcomes == {"checked", "connection_error", "store_error", "store_error_after"}
CycleRaises(outcome) == outcome \in {"store_error", "store_error_after"}

\* Where the task is once it has ended.
Ended == {"returned", "cancelled", "raised"}

\* The except clauses of the loop for an exception raised in its try block:
\* CancelledError breaks out of the loop, any other Exception is logged and
\* followed by a sleep of 10 seconds.
LoopHandlerNarrow(exc) == IF exc = "CancelledError" THEN "returned" ELSE "raised"
LoopHandler(exc) == IF exc = "CancelledError" THEN "returned" ELSE "backoff"

\* sleep_time = 10 if checking_orders else 15
SleepTime(tbl) == IF DbGetAllCheckingOrders(tbl) # {<<>>} THEN 10 ELSE 15

\* start(): the flag is set and the loop entered; its first test passes.
L_Start ==
    /\ loop.pc = "unstarted"
    /\ loop' = [is_running |-> TRUE, pc |-> "cycle", sleep_time |-> 0]
    /\ obs' = [op |-> "loop", begun |-> 1, raised |-> 0, last |-> "none"]
    /\ UNCHANGED <<orders, ticks, funded, paylinks, notifs, creates, restarts, calls, succ, ui,
                   mon, hooks, sw, hd, conn>>

\* One pass through the try block: check_orders, the query for the sleep
\* time, and into the sleep; or an exception and into the handler's sleep.
L_Cycle(outcome) ==
    /\ loop.pc = "cycle"
    /\ loop' = IF CycleRaises(outcome)
               THEN [loop EXCEPT !.pc = LoopHandler("Exception"), !.sleep_time = 10]
               ELSE [loop EXCEPT !.pc = "sleep", !.sleep_time = SleepTime(orders)]
    /\ obs' = [obs EXCEPT !.raised = IF CycleRaises(outcome) THEN @ + 1 ELSE @,
                          !.last = outcome]
    /\ UNCHANGED <<orders, ticks, funded, paylinks, notifs, creates, restarts, calls, succ, ui,
                   mon, hooks, sw, hd, conn>>

\* The sleep is over and "while self.is_running" is tested.
L_Wake ==
    /\ loop.pc \in {"sleep", "backoff"}
    /\ IF loop.is_running
       THEN /\ obs.begun < MaxCycles
            /\ loop' = [loop EXCEPT !.pc = "cycle"]
            /\ obs' = [obs EXCEPT !.begun = @ + 1]
       ELSE /\ loop' = [loop EXCEPT !.pc = "returned"]
            /\ UNCHANGED obs
    /\ UNCHANGED <<orders, ticks, funded, paylinks, notifs, creates, restarts, calls, succ, ui,
                   mon, hooks, sw, hd, conn>>

\* stop()
L_Stop ==
    /\ loop.pc \notin {"unstarted"} \cup Ended
    /\ loop.is_running
    /\ loop' = [loop EXCEPT !.is_running = FALSE]
    /\ UNCHANGED <<orders, ticks, funded, paylinks, notifs, creates, restarts, calls, succ, ui,
                   mon, hooks, sw, obs, hd, conn>>

\* The task is cancelled at the await it stands at: in the try block the
\* loop's except clause catches CancelledError; in the handler's sleep
\* nothing does, and the task ends cancelled.
L_Cancel ==
    /\ loop.pc \in {"cycle", "sleep", "backoff"}
    /\ loop' = [loop EXCEPT !.pc = IF loop.pc = "backoff" THEN "cancelled"
                                   ELSE LoopHandler("CancelledError")]
    /\ UNCHANGED <<orders, ticks, funded, paylinks, notifs, creates, restarts, calls, succ, ui,
                   mon, hooks, sw, obs, hd, conn>>

\* The loop with orders that come off the monitor's list when their user
\* cancels them.
NextLoop ==
    \/ L_Start
    \/ \E outcome \in CycleOutcomes : L_Cycle(outcome)
    \/ L_Wake
    \/ L_Stop
    \/ L_Cancel
    \/ \E o \in OrderIds : U_Cancel(o)

SpecLoop == InitCycle /\ [][NextLoop]_vars

\* ------------------------------------------------------------------ claims
\* The task, if any, that is between its re-read and its last write for o.
InFlight(o) ==
    \/ \E m \in Monitors : mon[m].pc \in {"reread", "markpaid", "exec", "finish"}
                           /\ mon[m].order.order_id = o
    \/ \E h \in Handlers : hooks[h].pc # "idle" /\ hooks[h].id = o

\* C1: FulfillmentProvider.execute returns success at most once per order,
\* over every interleaving of monitor cycles, notifications and sweeps.
C1_AtMostOneSuccess == \A o \in OrderIds : succ[o] <= 1

\* C2: of two concurrent runs of the monitor's check on one row, one only
\* writes paid (no run writes paid to an order that is paid or completed
\* already) and one only invokes FulfillmentProvider (no run invokes it for
\* an order it was invoked for already).
C2_TwicePaidOnce ==
    [][\A m \in Monitors :
          LET o == mon[m].order.order_id
          IN /\ M_MarkPaid(m) => orders[o].status \notin {"paid", "completed"}
             /\ M_Execute(m) => calls[o] = 0]_vars

\* C3: a blockchain-rail order that is pending with its address assigned and
\* funded is eventually marked paid and handed to FulfillmentProvider.
PlacedAndFunded(o) ==
    /\ orders[o].status = "pending"
    /\ orders[o].payment_method \in {"ton", "trc20"}
    /\ QueriedAddr(orders[o]) # 0
    /\ <<orders[o].payment_method, QueriedAddr(orders[o])>> \in funded

C3_FundedOrderGetsPaid ==
    \A o \in OrderIds :
        /\ PlacedAndFunded(o) ~> (orders[o].status = "paid")
        /\ PlacedAndFunded(o) ~> (calls[o] >= 1)

\* C4: a processing attempt whose FulfillmentProvider call reported failure
\* ends with the order in checking, on the monitor path and on the
\* notification path, and does not write completed.
C4_FailureEndsChecking ==
    [][/\ \A m \in Monitors :
            (mon[m].pc = "finish" /\ mon[m].res = "fail" /\ M_Finish(m)
             /\ Exists(mon[m].order.order_id))
            => orders'[mon[m].order.order_id].status = "checking"
       /\ \A h \in Handlers :
            (hooks[h].pc = "finish" /\ hooks[h].res = "fail" /\ W_Finish(h)
             /\ Exists(hooks[h].id))
            => orders'[hooks[h].id].status = "checking"]_vars

\* A step of the monitor, of a notification handler or of the cleaner.
BackgroundStep == MonitorNext \/ WebhookNext \/ SweeperNext

\* C5: once an order is completed, no step of the monitor, of the
\* notification handler or of the cleaner changes its status or deletes it.
C5_CompletedStays ==
    [][BackgroundStep =>
          \A o \in OrderIds :
              orders[o].status = "completed" => orders'[o] = orders[o]]_vars

\* The status domain: created -> pending -> {checking, paid} -> completed or
\* expired, checking -> paid, and the one backward edge paid -> checking.
StatusEdges ==
    {<<"created", "pending">>,
     <<"pending", "checking">>, <<"pending", "paid">>,
     <<"checking", "paid">>, <<"paid", "checking">>,
     <<"checking", "completed">>, <<"paid", "completed">>,
     <<"checking", "expired">>, <<"paid", "expired">>}

\* The step is taken by a task that read the row order o has now.
WritesOwnRow(o) ==
    \/ \E m \in Monitors : /\ mon[m].order.order_id = o
                           /\ mon[m].order.id = orders[o].id
                           /\ mon'[m] # mon[m]
    \/ \E h \in Handlers : /\ hooks[h].id = o
                           /\ hooks[h].row = orders[o].id
                           /\ hooks'[h] # hooks[h]

\* C6: every status change a component writes to the order it read follows
\* the status domain; in particular none leads from completed or expired to
\* paid or checking.
C6_StatusDomain ==
    [][BackgroundStep =>
          \A o \in OrderIds :
              (Exists(o) /\ WritesOwnRow(o) /\ orders'[o].id = orders[o].id
               /\ orders'[o].status # orders[o].status)
              => <<orders[o].status, orders'[o].status>> \in StatusEdges]_vars

\* C7: the monitor and the cleaner leave an order alone whose status is
\* terminal at the moment they act (completed, expired, or no row).
C7_TerminalUntouched ==
    [][(MonitorNext \/ SweeperNext) =>
          \A o \in OrderIds :
              orders[o].status \in {"completed", "expired", "absent"}
              => orders'[o] = orders[o]]_vars

\* An order the monitor can check: a blockchain rail, an address, funds on it.
Checkable(o) ==
    /\ orders[o].payment_method \in {"ton", "trc20"}
    /\ QueriedAddr(orders[o]) # 0
    /\ <<orders[o].payment_method, QueriedAddr(orders[o])>> \in funded

\* The monitor is about to call, or has just called, FulfillmentProvider for o.
MonitorFulfils(o) ==
    \E m \in Monitors : mon[m].pc \in {"exec", "finish"} /\ mon[m].order.order_id = o

\* C8: an order left in paid with no task working on it (the process stopped,
\* or the fulfilment raised) is resumed by a later monitor cycle, which
\* attempts the fulfilment again (unless the order has left paid meanwhile).
C8_PaidIsResumed ==
    \A o \in OrderIds :
        (orders[o].status = "paid" /\ Checkable(o) /\ ~InFlight(o))
            ~> (MonitorFulfils(o) \/ orders[o].status # "paid")

\* C9: an order in checking with no task working on it is taken up again by
\* the monitor, whatever its rail: the fulfilment is attempted again (unless
\* the order has left checking meanwhile).
C9_CheckingIsRetried ==
    \A o \in OrderIds :
        (orders[o].status = "checking" /\ ~InFlight(o)
         /\ (orders[o].payment_method = "okpay" \/ Checkable(o)))
            ~> (MonitorFulfils(o) \/ orders[o].status # "checking")

\* C10: no two different orders hold the same wallet index.
C10_IndexNotReused ==
    \A o1, o2 \in OrderIds :
        (o1 # o2 /\ Exists(o1) /\ Exists(o2))
        => orders[o1].wallet_index # orders[o2].wallet_index

\* C11: the monitor promotes an order exactly when the balance it read is at
\* least the order's amount times 10^6, computed exactly: one unit below the
\* amount is not enough, the amount itself is.
C11_PromotedExactly ==
    obs.op = "check_payment" => (obs.promoted <=> obs.balance >= obs.amount)

\* The request just served was a POST of a JSON object, and what it did.
Served == obs.op = "notify" /\ obs.req.method = "POST" /\ obs.req.json = "object"
ServedNext == obs'.op = "notify" /\ obs'.req.method = "POST" /\ obs'.req.json = "object"

\* C12: a callback whose signature is missing, or is not the digest of the
\* payload it came with (one entry altered after signing), is rejected with
\* an error response; no order changes and the FulfillmentProvider is not
\* invoked.
C12_BadSignatureRejected ==
    [][(ServedNext
        /\ obs'.req.body.sign # PayloadDigest(DataToCheck(obs'.req.body), OKPAY_SECRET))
       => (obs'.response.status \in {400, 403, 500} /\ orders' = orders /\ calls' = calls)]_vars

\* What makes a served callback one the gateway is to acknowledge: it comes
\* from an allowed address, carries a data object with its unique_id, and is
\* signed the way OkPayService signs.
Authorized(ob) == ob.allowed = {} \/ ob.req.ip \in ob.allowed
StructurallyValid(ob) == ob.req.body.data.kind = "object" /\ ob.req.body.data.unique_id # 0
CorrectlySigned(ob) ==
    ob.req.body.sign = GenerateSign(DataToCheck(ob.req.body), OKPAY_SECRET)
SuccessfulDeposit(ob) == ob.req.body.data.type = "deposit" /\ ob.req.body.data.status = 1

\* C13: every structurally valid, authorized and correctly signed callback is
\* answered 200, whatever its type and status flag and however the
\* fulfilment went; so a 400 or 403 goes only to a callback that is
\* malformed, from an address not allowed, or wrongly signed.
C13_ValidIsAcknowledged ==
    (Served /\ StructurallyValid(obs) /\ Authorized(obs) /\ CorrectlySigned(obs))
    => obs.response.status = 200

\* C13 witness: a verified deposit whose fulfilment failed (the order went
\* back to checking) was acknowledged.
C13_FailedFulfilmentAcknowledged ==
    /\ Served /\ StructurallyValid(obs) /\ Authorized(obs) /\ CorrectlySigned(obs)
    /\ SuccessfulDeposit(obs)
    /\ calls[obs.req.body.data.unique_id] = 1
    /\ succ[obs.req.body.data.unique_id] = 0
    /\ orders[obs.req.body.data.unique_id].status = "checking"
    /\ obs.response.status = 200

\* C14: a verified successful-deposit notification for an order that is
\* completed is acknowledged and does nothing: no status write, no
\* FulfillmentProvider invocation, no message to the user.
C14_CompletedIsLeft ==
    [][(ServedNext /\ StructurallyValid(obs') /\ Authorized(obs') /\ CorrectlySigned(obs')
        /\ SuccessfulDeposit(obs')
        /\ orders[obs'.req.body.data.unique_id].status = "completed")
       => (obs'.response = Response(200, "OK") /\ obs'.messages = 0
           /\ orders' = orders /\ calls' = calls /\ succ' = succ)]_vars

\* C14 witness: such a notification has been served for the completed order.
C14_CompletedNotified ==
    /\ Served /\ StructurallyValid(obs) /\ Authorized(obs) /\ CorrectlySigned(obs)
    /\ SuccessfulDeposit(obs)
    /\ orders[obs.req.body.data.unique_id].status = "completed"
    /\ calls[obs.req.body.data.unique_id] = 0
    /\ obs.response = Response(200, "OK")

\* The sweep goes on from the order at the head of its batch, whose
\* cancellation notice it has just tried to send, without deleting it.
SweepPasses(o) ==
    /\ sw.pc = "notify"
    /\ Head(sw.batch).order_id = o
    /\ sw' # sw
    /\ sw'.pc # "delete"
    /\ restarts' = restarts

\* C15: an order that is pending and older than the timeout when a sweep
\* runs is deleted by that sweep with a cancellation notice, also when the
\* notice cannot be delivered: the sweep does not go past it and leave it.
C15_ExpiredPendingDeleted ==
    [][\A o \in OrderIds :
          (SweepPasses(o) /\ orders[o].status = "pending") => orders'[o].status = "absent"]_vars

\* The sweep comes to its end: clean_checking_orders has run and the cleaner
\* goes to sleep.
SweepEnds == sw.pc # "idle" /\ sw'.pc = "idle" /\ restarts' = restarts

\* C16: an order that is checking or paid and older than the timeout when a
\* sweep runs (an order the sweep did not fetch as pending) is marked expired
\* by that sweep, and its record is kept.
C16_ExpiredCheckingMarked ==
    [][SweepEnds =>
          \A o \in OrderIds :
              (orders[o].status \in {"checking", "paid"}
               /\ orders[o].created_at < Now - ORDER_TIMEOUT_MINUTES
               /\ \A i \in 1..Len(sw.batch) : sw.batch[i].order_id # o)
              => orders'[o].status = "expired"]_vars

\* The two ways a derivation can come to nothing: no address from the
\* on-chain lookup, and none from the local computation (no cached code and
\* none fetched).
LookupFails(net) == net.connect # "ok" \/ net.lookup # "address"
LocalFails(h, net) ==
    net.connect # "ok" \/ (h.code_cache = None /\ net.jetton_data # "stack")

\* C17: the derivation raises when both the on-chain lookup and the local
\* computation fail, and what it returns otherwise is the address one of the
\* two produced; the order it was for keeps its row without an address, in
\* pending, and no address is shown.
C17_DerivationFailed ==
    [][(ui.pc = "wallet" /\ ui.rail = "ton" /\ ui'.pc = "idle")
       => /\ (LookupFails(obs'.net) /\ LocalFails(hd, obs'.net))
             => /\ obs'.raised
                /\ obs'.shown = 0
                /\ orders' = orders
                /\ orders[ui.id].status = "pending"
                /\ orders[ui.id].ton_addr = 0
          /\ ~obs'.raised
             => \/ obs'.path = "chain" /\ ~LookupFails(obs'.net)
                   /\ obs'.jetton_addr = JettonAddr(ui.index)
                \/ obs'.path = "local" /\ ~LocalFails(hd, obs'.net)
                   /\ obs'.jetton_addr \in {StateInitAddress(c, ui.index) :
                                              c \in {GetJettonData[k] : k \in 1..5}}]_vars

\* C17 witness: the client connected, get_wallet_address raised and so did
\* get_jetton_data: the call raised and the order is pending without address.
C17_BothFailed ==
    /\ obs.op = "derive"
    /\ obs.net = [connect |-> "ok", lookup |-> "error", jetton_data |-> "error"]
    /\ obs.raised
    /\ orders[obs.id].status = "pending"
    /\ orders[obs.id].ton_addr = 0

\* C18: two orders with the same wallet index on the same rail are given the
\* same receiving address, whichever path derived each.
C18_SameIndexSameAddress ==
    \A o1, o2 \in OrderIds :
        (/\ Exists(o1) /\ Exists(o2)
         /\ orders[o1].wallet_index = orders[o2].wallet_index
         /\ orders[o1].payment_method = orders[o2].payment_method
         /\ QueriedAddr(orders[o1]) # 0 /\ QueriedAddr(orders[o2]) # 0)
        => QueriedAddr(orders[o1]) = QueriedAddr(orders[o2])

\* C19: a cancel request for an order in checking, paid, completed or expired
\* leaves its record, status included, as it was.
C19_CancelOnlyPending ==
    [][\A o \in OrderIds :
          (U_Cancel(o) /\ orders[o].status \in {"checking", "paid", "completed", "expired"})
          => orders'[o] = orders[o]]_vars

\* C20: when the monitor, after a sufficient balance, re-reads the order and
\* finds it paid or completed, the step writes no status and invokes no
\* fulfilment, and the task is out of _process_success: it reaches neither
\* its writes nor the fulfilment nor the message to the user that follows a
\* successful one.
C20_RereadAborts ==
    [][\A m \in Monitors :
          (/\ mon[m].pc = "reread"
           /\ mon'[m] # mon[m]
           /\ orders[mon[m].order.order_id].status \in {"paid", "completed"})
          => /\ orders' = orders
             /\ calls' = calls
             /\ succ' = succ
             /\ mon'[m].pc \notin {"markpaid", "exec", "finish"}]_vars

\* C20 witness: a task re-read the order as paid while the other task, which
\* wrote paid, is about to run the fulfilment; the first is back asleep and
\* the order is still paid, with no fulfilment invoked.
C20_AbortedOnPaid ==
    /\ obs.op = "reread"
    /\ obs.status = "paid"
    /\ mon[obs.task].pc = "sleep"
    /\ \E k \in Monitors : mon[k].pc = "exec" /\ mon[k].order.order_id = obs.order_id
    /\ orders[obs.order_id].status = "paid"
    /\ calls[obs.order_id] = 0

\* C21: every write is preceded by a re-read of the status and gives way to
\* an equal or later state: the sweeper deletes a row only while it is still
\* pending, and a notification handler starts no fulfilment for an order that
\* another path marked paid.
C21_RecheckedBeforeActing ==
    [][/\ (S_Delete /\ Exists(Head(sw.batch).order_id))
          => orders[Head(sw.batch).order_id].status = "pending"
       /\ \A h \in Handlers :
             (W_Arrive(h, hooks'[h].id, "deposit", 1) /\ hooks'[h].pc # "idle")
             => orders[hooks'[h].id].status # "paid"]_vars

\* C22: started on orders in the same status and given the same answer by
\* FulfillmentProvider, the monitor's success path and the webhook's end with
\* the same order status and the same number of invocations.
C22_PathsAgree ==
    PathsDone => /\ orders[MonitorOrder].status = orders[WebhookOrder].status
                 /\ calls[MonitorOrder] = calls[WebhookOrder]

\* C23: whatever happens to the order a cycle is on (the query fails or is
\* not answered, the row is gone at the re-read, the purchase raises), no
\* order the cycle has still to query is dropped: after every step of the
\* cycle each of them is still to come or is the one being queried.
C23_RestOfBatchChecked ==
    [][(mon[MainMonitor].pc # "sleep" /\ mon'[MainMonitor] # mon[MainMonitor])
       => \A r \in Unvisited(mon[MainMonitor]) :
             \/ r \in Unvisited(mon'[MainMonitor])
             \/ mon'[MainMonitor].pc = "balance" /\ mon'[MainMonitor].order = r]_vars

\* C23 witness: the purchase for the first order of the batch raised (one
\* invocation, no success, the order still paid) and the task is at the
\* balance query of the second.
C23_SecondAfterFailure ==
    /\ calls[MonitorOrder] = 1
    /\ succ[MonitorOrder] = 0
    /\ orders[MonitorOrder].status = "paid"
    /\ calls[WebhookOrder] = 0
    /\ mon[MainMonitor].pc = "balance"
    /\ mon[MainMonitor].order.order_id = WebhookOrder
    /\ mon[MainMonitor].batch = <<>>

\* C24: a cycle whose connection to the rail-A chain cannot be established
\* still checks the outstanding rail-B orders: each of them is queried in
\* that cycle or waits in its batch.
C24_RailBCheckedWithoutRailA ==
    [][(M_StartLogged(MainMonitor) /\ ~obs'.connected)
       => \A o \in OrderIds :
             RailBOutstanding(o)
             => \/ mon'[MainMonitor].pc = "balance" /\ mon'[MainMonitor].order.order_id = o
                \/ \E r \in Unvisited(mon'[MainMonitor]) : r.order_id = o]_vars

C26_FailedCheckLeavesOrder ==
    [][\A m \in Monitors :
          (mon[m].pc = "balance" /\ mon'[m] # mon[m] /\ mon'[m].pc # "reread")
          => /\ orders' = orders
             /\ calls' = calls
             /\ succ' = succ
             /\ orders[mon[m].order.order_id].status \in {"checking", "paid"}
                => \A b \in DbGetAllCheckingOrders(orders') :
                      \E i \in 1..Len(b) : b[i].order_id = mon[m].order.order_id]_vars

\* C26 witness: the first order of the batch, whose address holds no funds,
\* was queried and left: it is in checking as before, nothing was invoked for
\* it, and the cycle is at the second order.
C26_UnfundedLeftChecking ==
    /\ mon[MainMonitor].pc = "balance"
    /\ mon[MainMonitor].order.order_id = WebhookOrder
    /\ mon[MainMonitor].batch = <<>>
    /\ orders[MonitorOrder].status = "checking"
    /\ <<orders[MonitorOrder].payment_method, QueriedAddr(orders[MonitorOrder])>> \notin funded
    /\ calls[MonitorOrder] = 0
    /\ calls[WebhookOrder] = 0

\* C27: a callback from an allowed address whose signature is the computed
\* digest up to the case of its letters passes the signature check.
C27_CaseInsensitiveAccepted ==
    (/\ Served
     /\ Authorized(obs)
     /\ Lower(obs.req.body.sign) = Lower(GenerateSign(DataToCheck(obs.req.body), OKPAY_SECRET)))
    => obs.response.message # "Invalid signature"

\* C28: with an allow-list configured, a notification from an address outside
\* it is answered 403 for its address, whatever it carries, and changes no
\* order; with an empty allow-list no request is refused for its address; and
\* a GET is answered with the confirmation page whoever sends it.
C28_AllowList ==
    [][(obs = NoObs /\ obs'.op = "notify")
       => /\ (obs'.allowed # {} /\ obs'.req.ip \notin obs'.allowed /\ obs'.req.method = "POST")
             => /\ obs'.response = Response(403, "Unauthorized IP")
                /\ orders' = orders
                /\ calls' = calls
          /\ obs'.allowed = {} => obs'.response.message # "Unauthorized IP"
          /\ obs'.req.method = "GET" => obs'.response = Response(200, "page")]_vars

\* C29: the shared chain connection is used behind one mutual-exclusion
\* section: at most one connect attempt is in progress at any time, no caller
\* closes or replaces a client another caller is connecting or using, and a
\* caller that comes back from ensure_connected holds a connected client.
C29_ConnectionSerialized ==
    [][/\ Cardinality({c \in Callers : conn'.task[c].pc = "connecting"}) <= 1
       /\ \A x \in Clients, d \in Callers :
             Bystander(d, x)
             => /\ ~(conn.state[x] # "closed" /\ conn'.state[x] = "closed")
                /\ ~(conn.client = x /\ conn'.client # x)
       /\ \A c \in Callers :
             (conn.task[c].pc # "using" /\ conn'.task[c].pc = "using")
             => /\ conn'.task[c].mine # 0
                /\ conn'.state[conn'.task[c].mine] = "connected"]_vars

\* C30: the cache of the contract code is written once: a cached cell is never
\* replaced or cleared; a derivation that falls back to the local computation
\* with the cell cached uses that cell and does not raise, whatever
\* get_jetton_data would answer; and a derivation that fetched nothing leaves
\* the cache empty.
C30_CacheWrittenOnce ==
    [][/\ hd.code_cache # None => hd'.code_cache = hd.code_cache
       /\ (ui.pc = "wallet" /\ ui.rail = "ton" /\ ui'.pc = "idle")
          => /\ (hd.code_cache # None /\ obs'.net.connect = "ok" /\ LookupFails(obs'.net))
                => /\ ~obs'.raised
                   /\ obs'.path = "local"
                   /\ obs'.jetton_addr
                        = ComputeJettonWalletAddressLocally(ui.index, hd.code_cache)
             /\ (hd.code_cache = None
                 /\ (obs'.net.connect # "ok" \/ ~LookupFails(obs'.net)
                     \/ obs'.net.jetton_data # "stack"))
                => hd'.code_cache = None]_vars

\* C30 witness: an address was derived locally from the cached cell in a call
\* during which get_jetton_data would have raised.
C30_DerivedFromCache ==
    /\ obs.op = "derive"
    /\ obs.net = [connect |-> "ok", lookup |-> "error", jetton_data |-> "error"]
    /\ ~obs.raised
    /\ obs.path = "local"
    /\ hd.code_cache # None
    /\ orders[obs.id].ton_addr = obs.jetton_addr

\* C31: every blockchain-rail order whose status is checking or paid has a
\* receiving address stored for its rail.
C31_VisibleHasAddress ==
    \A o \in OrderIds :
        (orders[o].payment_method \in {"ton", "trc20"} /\ orders[o].status \in {"checking", "paid"})
            => QueriedAddr(orders[o]) # 0

C33_NoticeNeverDecides ==
    \A o \in OrderIds :
        /\ (succ[o] >= 1 /\ ~AboutToSettle(o)) => orders[o].status = "completed"
        /\ obs.op = "notice" => obs.sent[o] <= 1

\* C33 witness: the message about the gateway's order was lost, the handler
\* has returned, and the order is completed.
C33_LostNoticeCompleted ==
    /\ obs.op = "notice"
    /\ WebhookOrder \in obs.lost
    /\ hooks[1] = HookIdle
    /\ succ[WebhookOrder] = 1
    /\ orders[WebhookOrder].status = "completed"

\* C34: creating an order with an id that is already stored leaves the stored
\* order as it was: its status, its addresses and every other column.
C34_CreateKeepsExisting ==
    [][\A t \in 1..MaxTime, u \in Users, tg \in Targets, m \in Months, rail \in Rails :
          (U_Create(t, u, tg, m, rail) /\ Exists(OrderId(t, u)))
              => orders'[OrderId(t, u)] = orders[OrderId(t, u)]]_vars

\* C35: one deposit settles at most one order: FulfillmentProvider is invoked
\* for no more orders than there are funded receiving addresses, also when two
\* orders of one requester for one recipient and duration are outstanding.
C35_OneDepositOneOrder ==
    Cardinality({o \in OrderIds : calls[o] >= 1}) <= Cardinality(funded)

\* C36: a verified deposit notification promotes an order and triggers its
\* fulfilment only if the amount it reports covers the order's amount.
C36_AmountCovers ==
    (obs.op = "deposit" /\ Acted(obs))
        => obs.data.amount >= PriceUsdt(obs.order.months)

\* C37: a verified deposit notification that names a blockchain-rail order,
\* or an expired order, changes no status and invokes no fulfilment.
C37_OnlyGatewayOrders ==
    (/\ obs.op = "deposit"
     /\ \/ obs.order.payment_method \in {"ton", "trc20"}
        \/ obs.order.status = "expired")
    => ~Acted(obs)

\* C38: for an order that was deleted between the monitor's batch and its
\* re-read, the monitor invokes no fulfilment and sends no message from the
\* re-read on, and the record stays deleted.
C38_DeletedIsLeftAlone ==
    obs.op = "notice"
    => \A g \in obs.gone :
          /\ calls[g.order_id] = g.calls
          /\ obs.sent[g.order_id] = g.sent
          /\ ~Exists(g.order_id)

\* C38 witness: the order the monitor had in hand was cancelled before the
\* re-read; the cycle is over, nothing was invoked and there is no row.
C38_CancelledBeforeReread ==
    /\ obs.op = "notice"
    /\ [order_id |-> MonitorOrder, calls |-> 0, sent |-> 0] \in obs.gone
    /\ mon[MainMonitor].pc = "sleep"
    /\ calls[MonitorOrder] = 0
    /\ ~Exists(MonitorOrder)

\* C39: a cycle that raised is followed by the handler's sleep and, while the
\* flag is set, by the next cycle; the task ends only after stop() or by
\* cancellation; and no cycle begins once stop() has cleared the flag.
C39_LoopKeepsCycling ==
    [][/\ \A outcome \in CycleOutcomes :
             (L_Cycle(outcome) /\ CycleRaises(outcome)) => loop'.pc = "backoff"
       /\ (L_Wake /\ loop.is_running) => loop'.pc = "cycle"
       /\ (loop.pc \notin Ended /\ loop'.pc \in Ended) => (~loop.is_running \/ L_Cancel)
       /\ (loop.pc # "cycle" /\ loop'.pc = "cycle") => loop'.is_running]_vars

\* C39 witness: a cycle is running after two cycles that raised.
C39_CyclingAfterErrors ==
    /\ obs.op = "loop"
    /\ obs.raised = 2
    /\ obs.begun = 3
    /\ loop.pc = "cycle"
    /\ loop.is_running

====
